---- MODULE Spec2Model ----
(***************************************************************************)
(* Model of the attribute-cap-aggregate stage of the OPRF IPA protocol     *)
(* (ipa-core/src/protocol/ipa_prf/prf_sharding/mod.rs) and of the bit      *)
(* adder it uses.  Secret-shared values are modelled by the value they     *)
(* reconstruct to: a k-bit array is the number 0 .. 2^k-1 whose bit i is   *)
(* element i of the array, and a Boolean share is 0 or 1.  Arithmetic on   *)
(* shares is done bit by bit over GF(2), the way the circuit does it.      *)
(***************************************************************************)
EXTENDS Integers, Sequences, FiniteSets, Bags, TLC

\* ------------------------------------------------------------------------
\* Bit widths and bounds
\* ------------------------------------------------------------------------
\* BK, TV, TS and SS are type parameters of the circuit (bit arrays BA_k); the
\* model instantiates them with small widths, SS with every width from |TV| up
\* to MaxSSBits.
BKBits == 1
TVBits == 2
TSBits == 2
MaxSSBits == 3
\* Longest rows_for_user vector handed to one per-user circuit.
MaxUserRows == 5
\* Inputs of attribute_cap_aggregate: at most MaxUsers runs of rows with one
\* grouping key, each of at most MaxRunLen rows.
MaxUsers == 3
MaxRunLen == 3
\* seq_join runs at most active_work() futures at a time
MaxActiveWork == 2
\* prf_of_match_key is a u64; the model keeps the wrap-around of an unsigned
\* integer on a narrower width
KeyBits == 3

SSWidths == TVBits .. MaxSSBits
\* Option<NonZeroU32>: 0 is None, w > 0 is Some(w).  Only windows below 2^|TS|.
Windows == 0 .. (2^TSBits - 1)

\* ------------------------------------------------------------------------
\* GF(2) and bit arrays
\* ------------------------------------------------------------------------
Bit(x, i) == (x \div (2^i)) % 2

\* Boolean::not on a share
Not(b) == (b + 1) % 2

\* Expand: every position of the k-bit array equals the bit b
Expand(b, k) == b * (2^k - 1)

RECURSIVE ArrayAdd(_, _, _)
\* + (and -) of two k-bit arrays: position-wise addition in GF(2)
ArrayAdd(x, y, k) ==
    IF k = 0 THEN 0
    ELSE ((x + y) % 2) + 2 * ArrayAdd(x \div 2, y \div 2, k - 1)

RECURSIVE ArrayMul(_, _, _)
\* multiply of two k-bit arrays: position-wise multiplication in GF(2)
ArrayMul(x, y, k) ==
    IF k = 0 THEN 0
    ELSE ((x % 2) * (y % 2)) + 2 * ArrayMul(x \div 2, y \div 2, k - 1)

\* ~y on a k-bit array
ArrayNot(y, k) == ArrayAdd(y, Expand(1, k), k)

\* ------------------------------------------------------------------------
\* Secure primitives
\* ------------------------------------------------------------------------
\* if_else(cond, a, b) = b + cond * (a - b), cond already expanded to k bits
if_else(cond, a, b, k) == ArrayAdd(b, ArrayMul(cond, ArrayAdd(a, b, k), k), k)

\* or(a, b) = a + b - a * b over GF(2)
or(a, b) == (a + b + a * b) % 2

\* the carry taken as x * y, without the carry that came in
bit_adder_carry_of_x_and_y(x, y, carry) ==
    [output |-> (x + y + carry) % 2,
     carry  |-> x * y]

\* one bit of the ripple-carry adder: output = x + (c + y),
\* carry' = (x + carry)(y + carry) + carry
bit_adder(x, y, carry) ==
    [output |-> (x + y + carry) % 2,
     carry  |-> (carry + ((x + carry) % 2) * ((y + carry) % 2)) % 2]

RECURSIVE addition_loop(_, _, _, _, _, _)
addition_loop(x, y, i, k, result, carry) ==
    IF i = k THEN [result |-> result, carry |-> carry]
    ELSE LET b == bit_adder(Bit(x, i), Bit(y, i), carry)
         IN  addition_loop(x, y, i + 1, k, result + b.output * (2^i), b.carry)

\* addition_circuit: the adder over the k bits of x, starting from `carry`;
\* yields the k-bit result and the carry out of bit k-1
addition_circuit(x, y, carry, k) == addition_loop(x, y, 0, k, 0, carry)

\* addition_sequential::integer_add: the sum of width |x| and the carry out
integer_add_carry(x, y, k) == addition_circuit(x, y, 0, k)

\* integer_sub(x, y) = x + ~y + 1, width |x|
integer_sub(x, y, k) == addition_circuit(x, ArrayNot(y, k), 1, k).result

\* compare_gt(x, y) = 1 iff x > y: the subtraction y - x borrows
compare_gt(x, y, k) == Not(addition_circuit(y, ArrayNot(x, k), 1, k).carry)

\* ------------------------------------------------------------------------
\* Step paths under a Row(d) context at which one row issues multiplications
\* ------------------------------------------------------------------------
\* a multiplication step: the labels narrowed below the row context and, for a
\* step of a bit adder, the index of the bit (NoBit otherwise)
NoBit == 0 - 1
StepAt(labels) == [path |-> labels, bit |-> NoBit]
BitSteps(labels, k) == { [path |-> labels, bit |-> i] : i \in 0 .. (k - 1) }

\* steps of timestamp_of_most_recent_source_event
SourceTimestampSteps(aws) ==
    IF aws = 0 THEN {} ELSE { StepAt(<<"SourceEventTimestamp">>) }

\* steps of is_trigger_event_within_attribution_window (ctx = CheckAttributionWindow)
WindowSteps(aws) ==
    IF aws = 0 THEN {}
    ELSE BitSteps(<<"AttributedTriggerValue", "CheckAttributionWindow",
                    "ComputeTimeDelta">>, TSBits)
         \cup BitSteps(<<"AttributedTriggerValue", "CheckAttributionWindow",
                         "CompareTimeDeltaToAttributionWindow">>, TSBits)

\* steps of zero_out_trigger_value_unless_attributed (ctx = AttributedTriggerValue)
ZeroOutSteps(aws) ==
    { StepAt(<<"AttributedTriggerValue", "DidTriggerGetAttributed">>) }
    \cup WindowSteps(aws)
    \cup (IF aws = 0 THEN {}
          ELSE { StepAt(<<"AttributedTriggerValue", "AttributedEventCheckFlag">>) })
    \cup { StepAt(<<"AttributedTriggerValue">>) }

\* steps of compute_capped_trigger_value
CappedSteps ==
    { StepAt(<<"ComputedCappedAttributedTriggerValueNotSaturatedCase">>),
      StepAt(<<"ComputedCappedAttributedTriggerValueJustSaturatedCase">>) }

\* every step at which compute_row_with_previous multiplies
RowSteps(aws, ss) ==
    { StepAt(<<"EverEncounteredSourceEvent">>), StepAt(<<"AttributedBreakdownKey">>) }
    \cup SourceTimestampSteps(aws)
    \cup ZeroOutSteps(aws)
    \cup BitSteps(<<"ComputeSaturatingSum">>, ss)
    \cup { StepAt(<<"IsSaturatedAndPrevRowNotSaturated">>) }
    \cup BitSteps(<<"ComputeDifferenceToCap">>, TVBits)
    \cup CappedSteps

\* ------------------------------------------------------------------------
\* The per-user attribution circuit
\* ------------------------------------------------------------------------
\* PrfShardedIpaInputRow without its cleartext prf_of_match_key
InputRows ==
    [is_trigger_bit : 0 .. 1,
     breakdown_key  : 0 .. (2^BKBits - 1),
     trigger_value  : 0 .. (2^TVBits - 1),
     timestamp      : 0 .. (2^TSBits - 1)]

\* InputsRequiredFromPrevRow for the first row of a user
initialize_new_device_attribution_variables(input_row) ==
    [ever_encountered_a_source_event |-> Not(input_row.is_trigger_bit),
     attributed_breakdown_key_bits   |-> input_row.breakdown_key,
     saturating_sum                  |-> 0,
     is_saturated                    |-> 0,
     difference_to_cap               |-> 0,
     source_event_timestamp          |-> input_row.timestamp]

\* a source row's key is dropped and a trigger row's key is taken
bk_branches_swapped(is_trigger_bit, prev_bk, cur_bk) ==
    if_else(Expand(is_trigger_bit, BKBits), cur_bk, prev_bk, BKBits)

breakdown_key_of_most_recent_source_event(is_trigger_bit, prev_bk, cur_bk) ==
    if_else(Expand(is_trigger_bit, BKBits), prev_bk, cur_bk, BKBits)

\* the timestamp selected whether or not there is a window
timestamp_selected_without_window(aws, is_trigger_bit, prev_ts, cur_ts) ==
    if_else(Expand(is_trigger_bit, TSBits), prev_ts, cur_ts, TSBits)

timestamp_of_most_recent_source_event(aws, is_trigger_bit, prev_ts, cur_ts) ==
    IF aws = 0 THEN prev_ts
    ELSE if_else(Expand(is_trigger_bit, TSBits), prev_ts, cur_ts, TSBits)

\* the window test done as "window > delta"
window_strictly_greater(aws, trigger_ts, source_ts) ==
    IF aws # 0
    THEN compare_gt(aws % (2^TSBits), integer_sub(trigger_ts, source_ts, TSBits), TSBits)
    ELSE 1

is_trigger_event_within_attribution_window(aws, trigger_ts, source_ts) ==
    IF aws # 0
    THEN LET time_delta_bits == integer_sub(trigger_ts, source_ts, TSBits)
             constant_bits   == aws % (2^TSBits)
         IN  Not(compare_gt(time_delta_bits, constant_bits, TSBits))
    ELSE 1

\* every trigger row counts, whether or not a source event was seen
zero_out_ignoring_source(is_trigger_bit, ever, trigger_value, aws, trigger_ts, source_ts) ==
    LET within == is_trigger_event_within_attribution_window(aws, trigger_ts, source_ts)
        flag == IF aws # 0 THEN is_trigger_bit * within ELSE is_trigger_bit
    IN  [zero_out_flag |-> flag,
         value |-> if_else(Expand(flag, TVBits), trigger_value, 0, TVBits)]

zero_out_trigger_value_unless_attributed(is_trigger_bit, ever, trigger_value, aws, trigger_ts, source_ts) ==
    LET did_trigger_get_attributed == is_trigger_bit * ever
        is_trigger_within_window ==
            is_trigger_event_within_attribution_window(aws, trigger_ts, source_ts)
        zero_out_flag ==
            IF aws # 0 THEN did_trigger_get_attributed * is_trigger_within_window
            ELSE did_trigger_get_attributed
    IN  [zero_out_flag |-> zero_out_flag,
         value |-> if_else(Expand(zero_out_flag, TVBits), trigger_value, 0, TVBits)]

\* the row that saturates the sum is zeroed like the rows after it
capped_without_just_saturated_case(is_saturated, is_saturated_and_prev_row_not_saturated, prev_row_diff_to_cap, attributed_trigger_value) ==
    if_else(Expand(is_saturated, TVBits), 0, attributed_trigger_value, TVBits)

compute_capped_trigger_value(is_saturated, is_saturated_and_prev_row_not_saturated, prev_row_diff_to_cap, attributed_trigger_value) ==
    LET attributed_trigger_value_or_zero ==
            if_else(Expand(is_saturated, TVBits), 0, attributed_trigger_value, TVBits)
    IN  if_else(Expand(is_saturated_and_prev_row_not_saturated, TVBits),
                prev_row_diff_to_cap, attributed_trigger_value_or_zero, TVBits)

\* the overflow bit taken alone
overflow_bit_alone(overflow_bit, is_saturated) == overflow_bit

\* overflow_bit.multiply(&self.is_saturated.clone().not(), ..)
overflow_and_prev_row_not_saturated(overflow_bit, is_saturated) ==
    overflow_bit * Not(is_saturated)

\* the bits of the sum inverted, without the carry-in of the subtraction
difference_to_cap_ones_complement(updated_sum) ==
    ArrayNot(updated_sum % (2^TVBits), TVBits)

\* integer_sub(.., &Replicated::<TV>::ZERO, &updated_sum): |TV| bits
difference_to_cap_of(updated_sum) == integer_sub(0, updated_sum, TVBits)

\* &self.is_saturated + &overflow_bit_and_prev_row_not_saturated
saturated_or_just_saturated(is_saturated, just_saturated) ==
    (is_saturated + just_saturated) % 2

\* compute_row_with_previous on state `self`: the updated state, the output row
\* and the intermediate shares of the call
compute_row_with_previous(self, input_row, aws, ss) ==
    LET is_source_event == Not(input_row.is_trigger_bit)
        ever == or(is_source_event, self.ever_encountered_a_source_event)
        abk  == breakdown_key_of_most_recent_source_event(
                    input_row.is_trigger_bit, self.attributed_breakdown_key_bits,
                    input_row.breakdown_key)
        sts  == timestamp_of_most_recent_source_event(
                    aws, input_row.is_trigger_bit, self.source_event_timestamp,
                    input_row.timestamp)
        zero == zero_out_trigger_value_unless_attributed(
                    input_row.is_trigger_bit, ever, input_row.trigger_value, aws,
                    input_row.timestamp, sts)
        atv  == zero.value
        add  == integer_add_carry(self.saturating_sum, atv, ss)
        just == overflow_and_prev_row_not_saturated(add.carry, self.is_saturated)
        diff == difference_to_cap_of(add.result)
        sat  == saturated_or_just_saturated(self.is_saturated, just)
        capped == compute_capped_trigger_value(sat, just, self.difference_to_cap, atv)
    IN  [state |-> [ever_encountered_a_source_event |-> ever,
                    attributed_breakdown_key_bits   |-> abk,
                    saturating_sum                  |-> add.result,
                    is_saturated                    |-> sat,
                    difference_to_cap               |-> diff,
                    source_event_timestamp          |-> sts],
         out   |-> [attributed_breakdown_key_bits   |-> abk,
                    capped_attributed_trigger_value |-> capped],
         zero_out_flag |-> zero.zero_out_flag,
         attributed_trigger_value |-> atv,
         overflow_bit |-> add.carry,
         overflow_bit_and_prev_row_not_saturated |-> just]

\* ------------------------------------------------------------------------
\* State
\* ------------------------------------------------------------------------
VARIABLES
    \* configuration of the query
    attribution_window_seconds, \* Option<NonZeroU32>, 0 for None
    ss_bits,                    \* width of the type parameter SS
    \* attribute_cap_aggregate, one call
    input_prf,                  \* prf_of_match_key of input_rows, in order
    histogram,                  \* the histogram argument
    active_work,                \* sh_ctx.active_work()
    sched_pc,                   \* "call", "running", "done" or "panicked"
    ctx_for_row_number,         \* contexts made by set_up_contexts
    collected,                  \* the chunks, sorted; a chunk lists the
                                \* positions in input_rows of its rows
    record_id_for_row_depth,    \* the per-depth counters
    num_outputs,                \* input_rows.len() - histogram[0]
    dispatched,                 \* chunks taken from the stream so far
    circuits,                   \* the per-user circuits created so far
    yielded,                    \* circuits whose output seq_join has yielded
    flattenned_stream,          \* outputs yielded so far: [user, row]
    issued,                     \* bag of [row, record_id]: the
                                \* compute_row_with_previous calls made
    moved,                      \* bag of the record ids used by the modulus
                                \* conversion and bucket steps
    result_len,                 \* length of the vector returned
    user_output,                \* the output rows of the circuit that runs
    running_sums,               \* the accumulator of try_fold
    expected,                   \* the per-bucket totals of the cleartext events
    \* evaluate_per_user_attribution_circuit, one call
    rows_len,                   \* rows_for_user.len()
    pc,                         \* "entry", "loop" or "returned"
    prev_row_inputs,            \* InputsRequiredFromPrevRow
    output,                     \* output: for each element, the index in
                                \* rows_for_user of the row it was computed from
    mults,                      \* multiplications issued by the call so far
    last_call,                  \* the last compute_row_with_previous call
    ref,                        \* plaintext bookkeeping of the rows read so far
    \* OprfIpaQuery::execute, one call
    per_user_credit_cap,        \* config.per_user_credit_cap
    plaintext_match_keys,       \* config.plaintext_match_keys
    query_size,                 \* usize::from(query_size)
    query_pc,                   \* "entry", "input", "called", "ok", "err"
                                \* or "panicked"
    query_error,                \* the error of an Err result, "" for none
    query_input_len,            \* input.len()
    oprf_ipa_types,             \* the type parameters oprf_ipa is called with
    \* integer_add / integer_sat_add, one call
    add_bits,                   \* the width of XS
    add_x,                      \* x, reconstructed
    add_y,                      \* y, reconstructed
    add_pc,                     \* "call", "integer_add" or "integer_sat_add"
    add_out,                    \* the value returned and the multiplications
                                \* issued
    \* Role and RoleAssignment
    role_value,                 \* the argument of RoleAssignment::new or try_from
    role_assignment,            \* the value returned: Ok(helper_roles) or Err(role)
    role_pc,                    \* "start", the constructor that has returned
                                \* ("new", "try_from") or "panicked"
    role_lookup,                \* the last call of role or identity
    peer_roles,                 \* a role and the results of the calls of peer
                                \* made from it, one after the other
    peer_directions,            \* the directions of these calls
    \* one multiplication by three helpers under a role assignment
    mul_helper_roles,           \* the RoleAssignment of the query
    mul_a,                      \* the additive parts of a, by role
    mul_b,                      \* the additive parts of b, by role
    mul_pads,                   \* the PRSS values r, by role
    mul_net,                    \* record streams of the inner transport:
                                \* [from, to, value] by helper identity
    mul_helpers,                \* by helper identity: pc, the value computed
                                \* and the value received
    \* TotalRecords of one context
    total_records,              \* the TotalRecords value
    total_pc,                   \* "running" or "panicked"
    total_set,                  \* the count it was first Specified with, 0
                                \* while it has never been Specified
    total_call,                 \* the last call of overwrite
    \* HttpTransport and the future of complete_query
    record_streams,             \* the keys [from, gate] of the streams held,
                                \* each with the number of drops before it
                                \* was added
    complete_pc,                \* "idle", "pending", "ok", "err" or
                                \* "panicking"
    drops,                      \* futures of complete_query dropped so far
    dropped_from,               \* complete_pc at the last drop and the number
                                \* of streams held then
    \* attribute_cap_aggregate run by the three helpers on one cleartext
    \* grouping column; the values below are per helper identity
    helpers_collected,          \* the sorted chunks (the same on each helper)
    helpers_ctx_for_row_number, \* the contexts made by set_up_contexts
    helpers_active_work,        \* sh_ctx.active_work()
    helpers_counters,           \* record_id_for_row_depth
    helpers_dispatched,         \* chunks taken from the stream so far
    helpers_yielded,            \* circuits whose output seq_join has yielded
    helpers_circuits,           \* the per-user circuits created so far
    helpers_issued,             \* the multiplications issued: [row, stage,
                                \* record_id]
    helpers_completed,          \* the multiplications that have returned
    \* addition_circuit, one call followed bit by bit
    adder_bits,                 \* the width of XS
    adder_x,                    \* x, reconstructed
    adder_y,                    \* y, reconstructed
    adder_record_id,            \* the record id of the caller
    adder_i,                    \* the index of the loop
    adder_carry,                \* *carry
    adder_result,               \* result
    adder_pc,                   \* "idle", "loop", "multiply", "returned" or "err"
    adder_trace,                \* the multiplications in the order of their
                                \* issue and return
    \* RoleResolvingTransport of one gateway
    gateway_roles,              \* roles: the RoleAssignment
    gateway_identity,           \* inner.identity()
    gateway_query_id,           \* query_id
    gateway_pc,                 \* "ready" or "panicked"
    gateway_call,               \* the last call of send, receive or role
    gateway_inner               \* the calls made to the inner transport

config_vars == <<attribution_window_seconds, ss_bits>>

sched_vars ==
    <<input_prf, histogram, active_work, sched_pc, ctx_for_row_number, collected,
      record_id_for_row_depth, num_outputs, dispatched, circuits, yielded, flattenned_stream,
      issued, moved, result_len>>

circuit_vars ==
    <<rows_len, pc, prev_row_inputs, output, mults, last_call, ref>>

agg_vars == <<user_output, running_sums, expected>>

query_vars ==
    <<per_user_credit_cap, plaintext_match_keys, query_size, query_pc, query_error,
      query_input_len, oprf_ipa_types>>

add_vars == <<add_bits, add_x, add_y, add_pc, add_out>>

role_vars ==
    <<role_value, role_assignment, role_pc, role_lookup, peer_roles, peer_directions>>

mul_vars == <<mul_helper_roles, mul_a, mul_b, mul_pads, mul_net, mul_helpers>>

total_vars == <<total_records, total_pc, total_set, total_call>>

transport_vars == <<record_streams, complete_pc, drops, dropped_from>>

join_vars ==
    <<helpers_collected, helpers_ctx_for_row_number, helpers_active_work, helpers_counters, helpers_dispatched,
      helpers_yielded, helpers_circuits, helpers_issued, helpers_completed>>

adder_vars ==
    <<adder_bits, adder_x, adder_y, adder_record_id, adder_i, adder_carry, adder_result,
      adder_pc, adder_trace>>

gateway_vars ==
    <<gateway_roles, gateway_identity, gateway_query_id, gateway_pc, gateway_call,
      gateway_inner>>

helper_vars ==
    <<role_vars, mul_vars, total_vars, transport_vars, join_vars, adder_vars,
      gateway_vars>>

vars ==
    <<config_vars, sched_vars, circuit_vars, agg_vars, query_vars, add_vars, helper_vars>>

NoAssignment == [kind |-> "none", helper_roles |-> <<>>, role |-> ""]
NoLookup == [fn |-> "", arg |-> "", result |-> ""]

\* no RoleAssignment is being built
RoleIdle ==
    /\ role_value = <<>>
    /\ role_assignment = NoAssignment
    /\ role_pc = "idle"
    /\ role_lookup = NoLookup
    /\ peer_roles = <<>>
    /\ peer_directions = <<>>

\* no multiplication is under way
MulIdle ==
    /\ mul_helper_roles = <<>>
    /\ mul_a = <<>>
    /\ mul_b = <<>>
    /\ mul_pads = <<>>
    /\ mul_net = {}
    /\ mul_helpers = <<>>

Unspecified == [kind |-> "Unspecified", count |-> 0]
Indeterminate == [kind |-> "Indeterminate", count |-> 0]
Specified(n) == [kind |-> "Specified", count |-> n]

\* the usize of a call of overwrite whose argument is a TotalRecords
NoUsize == 0 - 1

NoOverwrite ==
    [old |-> Unspecified, value |-> Unspecified, usize |-> NoUsize, panicked |-> FALSE,
     calls |-> 0]

\* no context is followed
TotalIdle ==
    /\ total_records = Unspecified
    /\ total_pc = "idle"
    /\ total_set = 0
    /\ total_call = NoOverwrite

NoDrop == [pc |-> "", held |-> 0]

\* no HttpTransport is followed
TransportIdle ==
    /\ record_streams = {}
    /\ complete_pc = "off"
    /\ drops = 0
    /\ dropped_from = NoDrop

\* the three helpers run no attribute_cap_aggregate together
JoinIdle ==
    /\ helpers_collected = <<>>
    /\ helpers_ctx_for_row_number = <<>>
    /\ helpers_active_work = <<>>
    /\ helpers_counters = <<>>
    /\ helpers_dispatched = <<>>
    /\ helpers_yielded = <<>>
    /\ helpers_circuits = <<>>
    /\ helpers_issued = <<>>
    /\ helpers_completed = <<>>

\* no call of addition_circuit is followed bit by bit
AdderIdle ==
    /\ adder_bits = 0
    /\ adder_x = 0
    /\ adder_y = 0
    /\ adder_record_id = 0
    /\ adder_i = 0
    /\ adder_carry = 0
    /\ adder_result = 0
    /\ adder_pc = "idle"
    /\ adder_trace = <<>>

NoGatewayCall == [fn |-> "", role |-> "", step |-> 0, outcome |-> ""]

\* no gateway is followed
GatewayIdle ==
    /\ gateway_roles = <<>>
    /\ gateway_identity = 0
    /\ gateway_query_id = 0
    /\ gateway_pc = "idle"
    /\ gateway_call = NoGatewayCall
    /\ gateway_inner = {}

ProtocolIdle == JoinIdle /\ AdderIdle /\ GatewayIdle

HelperIdle == RoleIdle /\ MulIdle /\ TotalIdle /\ TransportIdle /\ ProtocolIdle

\* oprf_ipa has not been called
NoTypes == [BK |-> 0, TV |-> 0, TS |-> 0, SS |-> 0]

\* no call of OprfIpaQuery::execute is under way
QueryIdle ==
    /\ per_user_credit_cap = 0
    /\ plaintext_match_keys = TRUE
    /\ query_size = 0
    /\ query_pc = "idle"
    /\ query_error = ""
    /\ query_input_len = 0
    /\ oprf_ipa_types = NoTypes

NoOutput == [value |-> 0, mults |-> {}]

\* no call of integer_add or integer_sat_add is under way
AddIdle ==
    /\ add_bits = 1
    /\ add_x = 0
    /\ add_y = 0
    /\ add_pc = "idle"
    /\ add_out = NoOutput

ZeroRow == [is_trigger_bit |-> 0, breakdown_key |-> 0, trigger_value |-> 0, timestamp |-> 0]

\* what is kept of a compute_row_with_previous call: the row's is_trigger_bit
\* and trigger_value, the intermediate shares and the output row
NoCall ==
    [made |-> FALSE, is_trigger_bit |-> 0, trigger_value |-> 0,
     attributed_breakdown_key_bits |-> 0, zero_out_flag |-> 0,
     attributed_trigger_value |-> 0, overflow_bit |-> 0,
     overflow_bit_and_prev_row_not_saturated |-> 0,
     capped_attributed_trigger_value |-> 0]

\* Plaintext bookkeeping over the rows of the user, kept beside the circuit:
\* what a reader of the cleartext events would note down.
RefFirst(row) ==
    [seen_source  |-> (row.is_trigger_bit = 0),
     source_bk    |-> row.breakdown_key,
     source_ts    |-> row.timestamp,
     last_ts      |-> row.timestamp,
     credited     |-> FALSE,
     credited_total   |-> 0,
     attributed_total |-> 0,
     capped_total     |-> 0]

RefNext(r, row, aws, call) ==
    LET is_source == (row.is_trigger_bit = 0)
        sts == IF is_source THEN row.timestamp ELSE r.source_ts
        credited == /\ row.is_trigger_bit = 1
                    /\ r.seen_source
                    /\ (aws = 0 \/ row.timestamp - sts <= aws)
    IN  [seen_source  |-> (r.seen_source \/ is_source),
         source_bk    |-> IF is_source THEN row.breakdown_key ELSE r.source_bk,
         source_ts    |-> sts,
         last_ts      |-> row.timestamp,
         credited     |-> credited,
         credited_total   |-> r.credited_total + (IF credited THEN row.trigger_value ELSE 0),
         attributed_total |-> r.attributed_total + call.attributed_trigger_value,
         capped_total     |-> r.capped_total + call.out.capped_attributed_trigger_value]

\* ------------------------------------------------------------------------
\* evaluate_per_user_attribution_circuit
\* ------------------------------------------------------------------------
\* the loop run over every row, the first included
skip_none(len) == len

\* rows_for_user.iter().skip(1): the number of rows the loop visits; the i-th
\* of them (from 0) is rows_for_user[i + 1]
skip_first(len) == len - 1

\* no call of attribute_cap_aggregate is under way
SchedIdle ==
    /\ input_prf = <<>>
    /\ histogram = <<>>
    /\ active_work = 1
    /\ sched_pc = "idle"
    /\ ctx_for_row_number = <<>>
    /\ collected = <<>>
    /\ record_id_for_row_depth = <<>>
    /\ num_outputs = 0
    /\ dispatched = 0
    /\ circuits = <<>>
    /\ yielded = 0
    /\ flattenned_stream = <<>>
    /\ issued = EmptyBag
    /\ moved = EmptyBag
    /\ result_len = 0
    /\ user_output = <<>>
    /\ running_sums = <<>>
    /\ expected = [sums |-> <<>>, rows |-> 0]

CircuitInit ==
    /\ attribution_window_seconds \in Windows
    /\ ss_bits \in SSWidths
    /\ HelperIdle
    /\ QueryIdle
    /\ AddIdle
    /\ SchedIdle
    /\ rows_len \in 1 .. MaxUserRows
    /\ pc = "entry"
    /\ prev_row_inputs = initialize_new_device_attribution_variables(ZeroRow)
    /\ output = <<>>
    /\ mults = 0
    /\ last_call = NoCall
    /\ ref = RefFirst(ZeroRow)

\* a user with a single row: return Ok(Vec::new())
SingleRow ==
    /\ pc = "entry"
    /\ rows_len = 1
    /\ pc' = "returned"
    /\ UNCHANGED <<helper_vars, query_vars, add_vars, config_vars, agg_vars, sched_vars, rows_len, prev_row_inputs,
                   output, mults, last_call, ref>>

\* the first row initialises the state and produces no output
FirstRow ==
    /\ pc = "entry"
    /\ rows_len > 1
    /\ \E first_row \in InputRows :
          /\ prev_row_inputs' = initialize_new_device_attribution_variables(first_row)
          /\ ref' = RefFirst(first_row)
    /\ pc' = "loop"
    /\ UNCHANGED <<helper_vars, query_vars, add_vars, config_vars, agg_vars, sched_vars, rows_len, output, mults, last_call>>

\* one iteration of the loop over rows_for_user.iter().skip(1): rows are in time
\* order, so the row read is not older than the one before it
NextRow ==
    /\ pc = "loop"
    /\ Len(output) < skip_first(rows_len)
    /\ \E row \in InputRows :
          /\ row.timestamp >= ref.last_ts
          /\ \E call \in {compute_row_with_previous(prev_row_inputs, row,
                                     attribution_window_seconds, ss_bits)} :
                 /\ prev_row_inputs' = call.state
                 /\ last_call' = [made |-> TRUE,
                                  is_trigger_bit |-> row.is_trigger_bit,
                                  trigger_value |-> row.trigger_value,
                                  attributed_breakdown_key_bits |->
                                      call.out.attributed_breakdown_key_bits,
                                  zero_out_flag |-> call.zero_out_flag,
                                  attributed_trigger_value |-> call.attributed_trigger_value,
                                  overflow_bit |-> call.overflow_bit,
                                  overflow_bit_and_prev_row_not_saturated |->
                                      call.overflow_bit_and_prev_row_not_saturated,
                                  capped_attributed_trigger_value |->
                                      call.out.capped_attributed_trigger_value]
                 /\ mults' = mults + Cardinality(RowSteps(attribution_window_seconds, ss_bits))
                 /\ ref' = RefNext(ref, row, attribution_window_seconds, call)
    /\ output' = Append(output, Len(output) + 1)
    /\ UNCHANGED <<helper_vars, query_vars, add_vars, config_vars, agg_vars, sched_vars, rows_len, pc>>

\* Ok(output)
ReturnOutput ==
    /\ pc = "loop"
    /\ Len(output) = skip_first(rows_len)
    /\ pc' = "returned"
    /\ UNCHANGED <<helper_vars, query_vars, add_vars, config_vars, agg_vars, sched_vars, rows_len, prev_row_inputs,
                   output, mults, last_call, ref>>

Init == CircuitInit

Next == SingleRow \/ FirstRow \/ NextRow \/ ReturnOutput

Spec == Init /\ [][Next]_vars

\* ------------------------------------------------------------------------
\* The cleartext side of attribute_cap_aggregate: histogram, chunks, contexts
\* ------------------------------------------------------------------------
MaxKey == 2^KeyBits - 1

\* the loop body that leaves last_prf as it was
histogram_row_keeps_last_prf(st, key) ==
    LET cur_count == IF key = st.last_prf THEN st.cur_count + 1 ELSE 0
        pushed == IF Len(st.histogram) <= cur_count
                  THEN Append(st.histogram, 0) ELSE st.histogram
    IN  [histogram |-> [pushed EXCEPT ![cur_count + 1] = @ + 1],
         last_prf  |-> st.last_prf,
         cur_count |-> cur_count]

\* one iteration of the loop of compute_histogram_of_users_with_row_count;
\* histogram[d] of the code is histogram[d + 1] here
histogram_row(st, key) ==
    LET cur_count == IF key = st.last_prf THEN st.cur_count + 1 ELSE 0
        pushed == IF Len(st.histogram) <= cur_count
                  THEN Append(st.histogram, 0) ELSE st.histogram
    IN  [histogram |-> [pushed EXCEPT ![cur_count + 1] = @ + 1],
         last_prf  |-> key,
         cur_count |-> cur_count]

RECURSIVE histogram_loop(_, _, _)
histogram_loop(st, input, i) ==
    IF i > Len(input) THEN st
    ELSE histogram_loop(histogram_row(st, input[i]), input, i + 1)

\* input is not empty: input[0] of an empty slice panics
compute_histogram_of_users_with_row_count(input) ==
    histogram_loop([histogram |-> <<>>,
                    last_prf  |-> (input[1] + 1) % 2^KeyBits,
                    cur_count |-> 0], input, 1).histogram

\* a context for row 0 as well
set_up_contexts_with_row_0(h) ==
    [n \in 1 .. Len(h) |-> [row |-> n - 1, total_records |-> h[n]]]

\* the contexts Row(1) .. Row(len - 1), each with its total_records
set_up_contexts(h) ==
    [n \in 1 .. Len(h) - 1 |-> [row |-> n, total_records |-> h[n + 1]]]

\* the unfold that ends the stream without its current chunk
RECURSIVE chunk_loop_without_last(_, _, _, _, _)
chunk_loop_without_last(input, i, current_chunk, last_row_prf, emitted) ==
    IF i > Len(input) THEN emitted
    ELSE IF input[i] = last_row_prf
         THEN chunk_loop_without_last(input, i + 1, Append(current_chunk, i),
                                      last_row_prf, emitted)
    ELSE IF Len(current_chunk) > 1
         THEN chunk_loop_without_last(input, i + 1, <<i>>, input[i],
                                      Append(emitted, current_chunk))
    ELSE chunk_loop_without_last(input, i + 1, <<i>>, input[i], emitted)

\* the unfold of chunk_rows_by_user over the rows from the i-th on; a chunk
\* is the sequence of the positions of its rows in the input
RECURSIVE chunk_loop(_, _, _, _, _)
chunk_loop(input, i, current_chunk, last_row_prf, emitted) ==
    IF i > Len(input) THEN Append(emitted, current_chunk)
    ELSE IF input[i] = last_row_prf
         THEN chunk_loop(input, i + 1, Append(current_chunk, i), last_row_prf, emitted)
    ELSE IF Len(current_chunk) > 1
         THEN chunk_loop(input, i + 1, <<i>>, input[i], Append(emitted, current_chunk))
    ELSE chunk_loop(input, i + 1, <<i>>, input[i], emitted)

chunk_rows_by_user(input) == chunk_loop(input, 2, <<1>>, input[1], <<>>)

\* the chunks left in the order of the input
chunks_in_input_order(chunks) == chunks

\* collected.sort_by(|a, b| cmp(b.len(), a.len())): a stable sort, longest first
insert_by_len(sorted, chunk) ==
    LET before == Cardinality({n \in 1 .. Len(sorted) : Len(sorted[n]) >= Len(chunk)})
    IN  SubSeq(sorted, 1, before) \o <<chunk>> \o SubSeq(sorted, before + 1, Len(sorted))

RECURSIVE sort_loop(_, _, _)
sort_loop(chunks, i, sorted) ==
    IF i > Len(chunks) THEN sorted
    ELSE sort_loop(chunks, i + 1, insert_by_len(sorted, chunks[i]))

\* collected.sort_by(..) as a whole
sort_by_len(chunks) == sort_loop(chunks, 1, <<>>)

\* the copy made after the counters were incremented
record_ids_after_increment(counters, num_user_rows) ==
    [n \in 1 .. num_user_rows |-> counters[n] + 1]

\* record_id_for_row_depth[..num_user_rows].to_owned()
record_ids(counters, num_user_rows) == SubSeq(counters, 1, num_user_rows)

\* for count in &mut record_id_for_row_depth[..num_user_rows] { *count += 1 }
incremented(counters, num_user_rows) ==
    [n \in 1 .. Len(counters) |->
        IF n <= num_user_rows THEN counters[n] + 1 ELSE counters[n]]

\* The inputs tried: up to MaxUsers runs of up to MaxRunLen rows. The keys of
\* the runs are 1, 2, 3, ..; or MaxKey, 0, 1, ..; or 1, 2, 1, .., where a key
\* comes back after another user's rows.
KeyPatterns == {"fresh", "wrap", "repeat"}

KeyOfRun(pattern, n) ==
    CASE pattern = "fresh"  -> n % 2^KeyBits
      [] pattern = "wrap"   -> (MaxKey + n - 1) % 2^KeyBits
      [] pattern = "repeat" -> 2 - (n % 2)

RECURSIVE RowsOfRuns(_, _, _)
RowsOfRuns(lens, pattern, n) ==
    IF n > Len(lens) THEN <<>>
    ELSE [r \in 1 .. lens[n] |-> KeyOfRun(pattern, n)] \o RowsOfRuns(lens, pattern, n + 1)

\* two users with 3 and 7 rows
ScenarioRuns == {<<3, 7>>, <<7, 3>>}

InputColumns ==
    {RowsOfRuns(lens, pattern, 1) :
        lens \in UNION {[1 .. n -> 1 .. MaxRunLen] : n \in 0 .. MaxUsers},
        pattern \in KeyPatterns}
    \cup {RowsOfRuns(lens, "fresh", 1) : lens \in ScenarioRuns}

\* The histogram argument: the one computed from the input, or that one
\* without its last entry; for an empty input, which has no computed
\* histogram, an empty one or [0].
Histograms(input) ==
    IF input = <<>> THEN {<<>>, <<0>>}
    ELSE LET h == compute_histogram_of_users_with_row_count(input)
         IN  {h, SubSeq(h, 1, Len(h) - 1)}

\* ------------------------------------------------------------------------
\* attribute_cap_aggregate: the scheduling of the per-user circuits
\* ------------------------------------------------------------------------
\* no call of evaluate_per_user_attribution_circuit is followed row by row
CircuitIdle ==
    /\ rows_len = 1
    /\ pc = "idle"
    /\ prev_row_inputs = initialize_new_device_attribution_variables(ZeroRow)
    /\ output = <<>>
    /\ mults = 0
    /\ last_call = NoCall
    /\ ref = RefFirst(ZeroRow)

SchedInit ==
    /\ attribution_window_seconds \in {0, 1}
    /\ ss_bits = MaxSSBits
    /\ HelperIdle
    /\ QueryIdle
    /\ AddIdle
    /\ CircuitIdle
    /\ input_prf \in InputColumns
    /\ histogram \in Histograms(input_prf)
    /\ active_work \in 1 .. MaxActiveWork
    /\ sched_pc = "call"
    /\ ctx_for_row_number = <<>>
    /\ collected = <<>>
    /\ record_id_for_row_depth = <<>>
    /\ num_outputs = 0
    /\ dispatched = 0
    /\ circuits = <<>>
    /\ yielded = 0
    /\ flattenned_stream = <<>>
    /\ issued = EmptyBag
    /\ moved = EmptyBag
    /\ result_len = 0
    /\ user_output = <<>>
    /\ running_sums = <<>>
    /\ expected = [sums |-> <<>>, rows |-> 0]

\* histogram[0] of an empty histogram: index out of bounds
HistogramIndexPanics ==
    /\ sched_pc = "call"
    /\ histogram = <<>>
    /\ sched_pc' = "panicked"
    /\ UNCHANGED <<helper_vars, query_vars, add_vars, config_vars, agg_vars, circuit_vars, input_prf, histogram, active_work,
                   ctx_for_row_number, collected, record_id_for_row_depth,
                   num_outputs, dispatched, circuits, yielded, flattenned_stream,
                   issued, moved, result_len>>

\* first_row.is_none(): return Ok(vec![])
EmptyInputReturns ==
    /\ sched_pc = "call"
    /\ histogram # <<>>
    /\ histogram[1] <= Len(input_prf)
    /\ input_prf = <<>>
    /\ num_outputs' = Len(input_prf) - histogram[1]
    /\ record_id_for_row_depth' = [n \in 1 .. Len(histogram) |-> 0]
    /\ ctx_for_row_number' = set_up_contexts(histogram)
    /\ result_len' = 0
    /\ sched_pc' = "done"
    /\ UNCHANGED <<helper_vars, query_vars, add_vars, config_vars, agg_vars, circuit_vars, input_prf, histogram, active_work,
                   collected, dispatched, circuits, yielded, flattenned_stream,
                   issued, moved>>

\* the counters, the contexts and the sorted chunks are set up
ChunksCollected ==
    /\ sched_pc = "call"
    /\ histogram # <<>>
    /\ histogram[1] <= Len(input_prf)
    /\ input_prf # <<>>
    /\ num_outputs' = Len(input_prf) - histogram[1]
    /\ record_id_for_row_depth' = [n \in 1 .. Len(histogram) |-> 0]
    /\ ctx_for_row_number' = set_up_contexts(histogram)
    /\ collected' = sort_by_len(chunk_rows_by_user(input_prf))
    /\ sched_pc' = "running"
    /\ UNCHANGED <<helper_vars, query_vars, add_vars, config_vars, agg_vars, circuit_vars, input_prf, histogram, active_work,
                   dispatched, circuits, yielded, flattenned_stream, issued,
                   moved, result_len>>

\* seq_join takes the next chunk from the stream while fewer than
\* active_work futures are pending: the closure copies the contexts and the
\* record ids of the user and increments the counters
CircuitCreated ==
    /\ sched_pc = "running"
    /\ dispatched < Len(collected)
    /\ dispatched - yielded < active_work
    /\ LET num_user_rows == Len(collected[dispatched + 1])
       IN  /\ num_user_rows <= Len(record_id_for_row_depth)
           /\ circuits' = Append(circuits,
                 [record_ids    |-> record_ids(record_id_for_row_depth, num_user_rows),
                  num_user_rows |-> num_user_rows,
                  output_len    |-> 0,
                  err           |-> FALSE])
           /\ record_id_for_row_depth' =
                 incremented(record_id_for_row_depth, num_user_rows)
    /\ dispatched' = dispatched + 1
    /\ UNCHANGED <<helper_vars, query_vars, add_vars, config_vars, agg_vars, circuit_vars, input_prf, histogram, active_work,
                   sched_pc, ctx_for_row_number, collected, num_outputs, yielded,
                   flattenned_stream, issued, moved, result_len>>

\* ctx_for_row_number[..num_user_rows - 1] or
\* record_id_for_row_depth[..num_user_rows] is out of range
SlicePanics ==
    /\ sched_pc = "running"
    /\ dispatched < Len(collected)
    /\ dispatched - yielded < active_work
    /\ Len(collected[dispatched + 1]) > Len(record_id_for_row_depth)
    /\ sched_pc' = "panicked"
    /\ UNCHANGED <<helper_vars, query_vars, add_vars, config_vars, agg_vars, circuit_vars, input_prf, histogram, active_work,
                   ctx_for_row_number, collected, record_id_for_row_depth,
                   num_outputs, dispatched, circuits, yielded, flattenned_stream,
                   issued, moved, result_len>>

\* one iteration of the loop of a pending per-user circuit: the call of
\* compute_row_with_previous for row i + 1 of the user, under the context of
\* index i and the record id of index i + 1
RowComputed ==
    /\ sched_pc = "running"
    /\ \E j \in yielded + 1 .. dispatched :
          LET i == circuits[j].output_len
              ctx_for_this_row_depth == ctx_for_row_number[i + 1]
              record_id_for_this_row_depth == circuits[j].record_ids[i + 2]
          IN  /\ ~circuits[j].err
              /\ i < skip_first(circuits[j].num_user_rows)
              /\ issued' = issued (+) SetToBag({[row |-> ctx_for_this_row_depth.row,
                                                 record_id |-> record_id_for_this_row_depth]})
              /\ circuits' = [circuits EXCEPT ![j].output_len = i + 1]
    /\ UNCHANGED <<helper_vars, query_vars, add_vars, config_vars, agg_vars, circuit_vars, input_prf, histogram, active_work,
                   sched_pc, ctx_for_row_number, collected, record_id_for_row_depth,
                   num_outputs, dispatched, yielded, flattenned_stream, moved,
                   result_len>>

\* a multiplication of the call of compute_row_with_previous fails: `?`
\* returns the error from the circuit, whose loop ends. The call is counted
\* in issued under its context and record id, whichever step failed.
RowFails ==
    /\ sched_pc = "running"
    /\ \E j \in yielded + 1 .. dispatched :
          LET i == circuits[j].output_len
              ctx_for_this_row_depth == ctx_for_row_number[i + 1]
              record_id_for_this_row_depth == circuits[j].record_ids[i + 2]
          IN  /\ ~circuits[j].err
              /\ i < skip_first(circuits[j].num_user_rows)
              /\ issued' = issued (+) SetToBag({[row |-> ctx_for_this_row_depth.row,
                                                 record_id |-> record_id_for_this_row_depth]})
              /\ circuits' = [circuits EXCEPT ![j].err = TRUE]
    /\ UNCHANGED <<helper_vars, query_vars, add_vars, config_vars, agg_vars, circuit_vars, input_prf, histogram, active_work,
                   sched_pc, ctx_for_row_number, collected, record_id_for_row_depth,
                   num_outputs, dispatched, yielded, flattenned_stream, moved,
                   result_len>>

\* seq_join yields the Err of the oldest pending circuit: x.unwrap() in the
\* closure of flat_map panics
ErrUnwrapped ==
    /\ sched_pc = "running"
    /\ yielded < dispatched
    /\ circuits[yielded + 1].err
    /\ sched_pc' = "panicked"
    /\ UNCHANGED <<helper_vars, query_vars, add_vars, config_vars, agg_vars, circuit_vars, input_prf, histogram, active_work,
                   ctx_for_row_number, collected, record_id_for_row_depth,
                   num_outputs, dispatched, circuits, yielded, flattenned_stream,
                   issued, moved, result_len>>

\* the rows of an output put in front of the stream
flat_map_in_front(stream, user, output_len) ==
    [r \in 1 .. output_len |-> [user |-> user, row |-> r]] \o stream

\* flat_map(|x| stream_iter(x.unwrap())): the rows of the output yielded, in
\* their order, follow the rows already in the stream
flat_map(stream, user, output_len) ==
    stream \o [r \in 1 .. output_len |-> [user |-> user, row |-> r]]

\* seq_join yields the output of the oldest pending circuit once it is
\* complete; flat_map appends its rows to the stream
CircuitYielded ==
    /\ sched_pc = "running"
    /\ yielded < dispatched
    /\ LET c == circuits[yielded + 1]
       IN  /\ ~c.err
           /\ c.output_len = skip_first(c.num_user_rows)
           /\ flattenned_stream' = flat_map(flattenned_stream, yielded + 1, c.output_len)
    /\ yielded' = yielded + 1
    /\ UNCHANGED <<helper_vars, query_vars, add_vars, config_vars, agg_vars, circuit_vars, input_prf, histogram, active_work,
                   sched_pc, ctx_for_row_number, collected, record_id_for_row_depth,
                   num_outputs, dispatched, circuits, issued, moved, result_len>>

\* the next row of the stream is converted and moved to its bucket, under
\* the record id that enumerate() gives it
ValueMovedToBucket ==
    /\ sched_pc = "running"
    /\ BagCardinality(moved) < Len(flattenned_stream)
    /\ LET i == BagCardinality(moved)
       IN  moved' = moved (+) SetToBag({[record_id |-> i,
                                         user |-> flattenned_stream[i + 1].user,
                                         row  |-> flattenned_stream[i + 1].row]})
    /\ UNCHANGED <<helper_vars, query_vars, add_vars, config_vars, agg_vars, circuit_vars, input_prf, histogram, active_work,
                   sched_pc, ctx_for_row_number, collected, record_id_for_row_depth,
                   num_outputs, dispatched, circuits, yielded, flattenned_stream,
                   issued, result_len>>

\* the move of the next row of the stream fails: try_fold ends with the
\* error, which attribute_cap_aggregate returns
ValueMoveFails ==
    /\ sched_pc = "running"
    /\ BagCardinality(moved) < Len(flattenned_stream)
    /\ sched_pc' = "err"
    /\ UNCHANGED <<helper_vars, query_vars, add_vars, config_vars, agg_vars, circuit_vars, input_prf, histogram, active_work,
                   ctx_for_row_number, collected, record_id_for_row_depth,
                   num_outputs, dispatched, circuits, yielded, flattenned_stream,
                   issued, moved, result_len>>

\* try_fold has added every row contribution to the running sums
RunningSumsReturned ==
    /\ sched_pc = "running"
    /\ yielded = Len(collected)
    /\ BagCardinality(moved) = Len(flattenned_stream)
    /\ result_len' = 2^BKBits
    /\ sched_pc' = "done"
    /\ UNCHANGED <<helper_vars, query_vars, add_vars, config_vars, agg_vars, circuit_vars, input_prf, histogram, active_work,
                   ctx_for_row_number, collected, record_id_for_row_depth,
                   num_outputs, dispatched, circuits, yielded, flattenned_stream,
                   issued, moved>>

\* every call of compute_row_with_previous issues one multiplication under
\* each of its steps: the bag of the record ids issued under step of Row(d)
MultiplicationsUnder(d, step) ==
    IF step \in RowSteps(attribution_window_seconds, ss_bits)
    THEN [r \in {c.record_id : c \in {x \in BagToSet(issued) : x.row = d}} |->
             CopiesIn([row |-> d, record_id |-> r], issued)]
    ELSE EmptyBag

SchedNext ==
    \/ HistogramIndexPanics
    \/ EmptyInputReturns
    \/ ChunksCollected
    \/ CircuitCreated
    \/ SlicePanics
    \/ RowComputed
    \/ RowFails
    \/ ErrUnwrapped
    \/ CircuitYielded
    \/ ValueMovedToBucket
    \/ ValueMoveFails
    \/ RunningSumsReturned

SpecSched == SchedInit /\ [][SchedNext]_vars

Min(a, b) == IF a < b THEN a ELSE b

\* ------------------------------------------------------------------------
\* attribute_cap_aggregate: the values, one per-user circuit at a time
\* ------------------------------------------------------------------------
\* BitDecomposed::to_additive_sharing_in_large_field_consuming: the field
\* element with the bits of the array, least significant first
RECURSIVE to_additive_sharing_in_large_field(_, _)
to_additive_sharing_in_large_field(bits, k) ==
    IF k = 0 THEN 0
    ELSE to_additive_sharing_in_large_field(bits, k - 1) + Bit(bits, k - 1) * 2^(k - 1)

\* the vector with value at the entry of the breakdown key and 0 elsewhere;
\* entry b of the code is entry b + 1 here
move_single_value_to_bucket(bk_bits, value, num_buckets) ==
    [b \in 1 .. num_buckets |->
        IF b - 1 = to_additive_sharing_in_large_field(bk_bits, BKBits)
        THEN value ELSE 0]

\* try_fold over the row contributions of the rows from the i-th on
RECURSIVE try_fold(_, _, _)
try_fold(sums, rows, i) ==
    IF i > Len(rows) THEN sums
    ELSE LET row_contribution ==
                 move_single_value_to_bucket(
                     rows[i].attributed_breakdown_key_bits,
                     to_additive_sharing_in_large_field(
                         rows[i].capped_attributed_trigger_value, TVBits),
                     2^BKBits)
         IN  try_fold([b \in 1 .. 2^BKBits |-> sums[b] + row_contribution[b]],
                      rows, i + 1)

\* What the cleartext events of a row add to the per-bucket totals: the part
\* of a credited trigger value below the cap of the user, in the bucket of
\* the most recent source event. rows counts the rows accounted for.
ExpectedAfter(e, before, after, ss) ==
    LET contribution == Min(after.credited_total, 2^ss) - Min(before.credited_total, 2^ss)
    IN  [sums |-> [b \in 1 .. 2^BKBits |->
                      IF b - 1 = after.source_bk
                      THEN e.sums[b] + contribution ELSE e.sums[b]],
         rows |-> e.rows + 1]

\* the inputs grouped by user, of fewer than MaxUsers users, with the
\* histogram computed from them; no window or a window of 1
AggInit ==
    /\ attribution_window_seconds \in {0, 1}
    /\ ss_bits \in SSWidths
    /\ HelperIdle
    /\ QueryIdle
    /\ AddIdle
    /\ rows_len = 1
    /\ pc = "idle"
    /\ prev_row_inputs = initialize_new_device_attribution_variables(ZeroRow)
    /\ output = <<>>
    /\ mults = 0
    /\ last_call = NoCall
    /\ ref = RefFirst(ZeroRow)
    /\ input_prf \in {RowsOfRuns(lens, "fresh", 1) :
           lens \in UNION {[1 .. n -> 1 .. MaxRunLen] : n \in 1 .. MaxUsers - 1}}
    /\ histogram = compute_histogram_of_users_with_row_count(input_prf)
    /\ active_work = 1
    /\ sched_pc = "call"
    /\ ctx_for_row_number = <<>>
    /\ collected = <<>>
    /\ record_id_for_row_depth = <<>>
    /\ num_outputs = 0
    /\ dispatched = 0
    /\ circuits = <<>>
    /\ yielded = 0
    /\ flattenned_stream = <<>>
    /\ issued = EmptyBag
    /\ moved = EmptyBag
    /\ result_len = 0
    /\ user_output = <<>>
    /\ running_sums = [b \in 1 .. 2^BKBits |-> 0]
    /\ expected = [sums |-> [b \in 1 .. 2^BKBits |-> 0], rows |-> 0]

\* the circuit of the user created last starts: a user with a single row
\* returns at once, otherwise the first row initialises the state
UserFirstRow ==
    /\ sched_pc = "running"
    /\ pc = "idle"
    /\ yielded < dispatched
    /\ rows_len' = circuits[dispatched].num_user_rows
    /\ \/ /\ rows_len' = 1
          /\ UNCHANGED <<prev_row_inputs, ref>>
       \/ /\ rows_len' > 1
          /\ \E first_row \in InputRows :
                /\ prev_row_inputs' = initialize_new_device_attribution_variables(first_row)
                /\ ref' = RefFirst(first_row)
    /\ pc' = "loop"
    /\ user_output' = <<>>
    /\ UNCHANGED <<helper_vars, query_vars, add_vars, config_vars, sched_vars, output, mults, last_call,
                   running_sums, expected>>

\* one iteration of the loop of the circuit, on a row not older than the
\* row before
UserNextRow ==
    /\ sched_pc = "running"
    /\ pc = "loop"
    /\ Len(user_output) < skip_first(rows_len)
    /\ LET i == Len(user_output)
       IN  IF i + 1 > Len(ctx_for_row_number)
              \/ i + 2 > Len(circuits[dispatched].record_ids)
           THEN \* ctx_for_row_number[i] or record_id_for_each_depth[i + 1]
                \* is out of bounds
                /\ sched_pc' = "panicked"
                /\ UNCHANGED <<issued, prev_row_inputs, user_output, ref, expected>>
           ELSE /\ \E row \in InputRows :
                      /\ row.timestamp >= ref.last_ts
                      /\ \E call \in {compute_row_with_previous(prev_row_inputs, row,
                                               attribution_window_seconds, ss_bits)} :
                             /\ prev_row_inputs' = call.state
                             /\ user_output' = Append(user_output, call.out)
                             /\ ref' = RefNext(ref, row, attribution_window_seconds, call)
                             /\ expected' = ExpectedAfter(expected, ref, ref', ss_bits)
                /\ issued' = issued (+) SetToBag({
                       [row |-> ctx_for_row_number[i + 1].row,
                        record_id |-> circuits[dispatched].record_ids[i + 2]]})
                /\ UNCHANGED sched_pc
    /\ UNCHANGED <<helper_vars, query_vars, add_vars, config_vars, input_prf, histogram, active_work,
                   ctx_for_row_number, collected, record_id_for_row_depth,
                   num_outputs, dispatched, circuits, yielded, flattenned_stream,
                   moved, result_len, rows_len, pc, output, mults, last_call,
                   running_sums>>

\* the output of the circuit is yielded; its rows are converted, moved to
\* their buckets and added to the running sums
UserOutputFolded ==
    /\ sched_pc = "running"
    /\ pc = "loop"
    /\ Len(user_output) = skip_first(rows_len)
    /\ running_sums' = try_fold(running_sums, user_output, 1)
    /\ moved' = moved (+) SetToBag({[record_id |-> BagCardinality(moved) + r - 1,
                                      user |-> yielded + 1, row |-> r] :
                                        r \in 1 .. Len(user_output)})
    /\ yielded' = yielded + 1
    /\ pc' = "idle"
    /\ user_output' = <<>>
    /\ UNCHANGED <<helper_vars, query_vars, add_vars, config_vars, input_prf, histogram, active_work, sched_pc,
                   ctx_for_row_number, collected, record_id_for_row_depth,
                   num_outputs, dispatched, circuits, flattenned_stream, issued,
                   result_len, rows_len, prev_row_inputs, output, mults,
                   last_call, ref, expected>>

\* the stream has ended: the running sums are returned
SumsReturned ==
    /\ sched_pc = "running"
    /\ pc = "idle"
    /\ yielded = Len(collected)
    /\ result_len' = Len(running_sums)
    /\ sched_pc' = "done"
    /\ UNCHANGED <<helper_vars, query_vars, add_vars, config_vars, circuit_vars, agg_vars, input_prf, histogram,
                   active_work, ctx_for_row_number, collected,
                   record_id_for_row_depth, num_outputs, dispatched, circuits,
                   yielded, flattenned_stream, issued, moved>>

AggNext ==
    \/ ChunksCollected
    \/ CircuitCreated
    \/ UserFirstRow
    \/ UserNextRow
    \/ UserOutputFolded
    \/ SumsReturned

SpecAgg == AggInit /\ [][AggNext]_vars

\* ------------------------------------------------------------------------
\* OprfIpaQuery::execute
\* ------------------------------------------------------------------------
\* Largest per_user_credit_cap, query size and number of records in the input
\* stream that are tried.
MaxCap == 129
MaxQuerySize == 2
MaxStreamRows == 3

\* the type parameters BK, TV and TS that execute passes to oprf_ipa
QueryBKBits == 8
QueryTVBits == 3
QueryTSBits == 20

\* no arm of the match but the last one takes the cap
NoWidth == 0

ss_for_cap_one_bit_wider(cap) ==
    CASE cap = 8 -> 4
      [] cap = 16 -> 5
      [] cap = 32 -> 6
      [] cap = 64 -> 7
      [] cap = 128 -> 8
      [] OTHER -> NoWidth

\* the width of the type parameter SS in the arm of the match that takes cap
ss_for_cap(cap) ==
    CASE cap = 8 -> 3
      [] cap = 16 -> 4
      [] cap = 32 -> 5
      [] cap = 64 -> 6
      [] cap = 128 -> 7
      [] OTHER -> NoWidth

\* Vec::truncate: the length of a vector of len elements truncated to sz
truncate(len, sz) == IF len > sz THEN sz ELSE len

QueryInit ==
    /\ attribution_window_seconds \in {0, 1}
    /\ ss_bits = MaxSSBits
    /\ HelperIdle
    /\ SchedIdle
    /\ CircuitIdle
    /\ AddIdle
    /\ per_user_credit_cap \in 0 .. MaxCap
    /\ plaintext_match_keys \in BOOLEAN
    /\ query_size \in 0 .. MaxQuerySize
    /\ query_pc = "entry"
    /\ query_error = ""
    /\ query_input_len = 0
    /\ oprf_ipa_types = NoTypes

\* config.plaintext_match_keys is false: the else branch panics
EncryptedMatchKeysPanic ==
    /\ query_pc = "entry"
    /\ ~plaintext_match_keys
    /\ query_pc' = "panicked"
    /\ UNCHANGED <<helper_vars, config_vars, sched_vars, circuit_vars, agg_vars, add_vars,
                   per_user_credit_cap, plaintext_match_keys, query_size, query_error,
                   query_input_len, oprf_ipa_types>>

\* try_concat on the records stream yields an error, returned by `?`
InputStreamFails ==
    /\ query_pc = "entry"
    /\ plaintext_match_keys
    /\ query_pc' = "err"
    /\ query_error' = "InputStream"
    /\ UNCHANGED <<helper_vars, config_vars, sched_vars, circuit_vars, agg_vars, add_vars,
                   per_user_credit_cap, plaintext_match_keys, query_size,
                   query_input_len, oprf_ipa_types>>

\* the records of the stream are collected and truncated to the query size
InputRead ==
    /\ query_pc = "entry"
    /\ plaintext_match_keys
    /\ \E received \in 0 .. MaxStreamRows :
           query_input_len' = truncate(received, query_size)
    /\ query_pc' = "input"
    /\ UNCHANGED <<helper_vars, config_vars, sched_vars, circuit_vars, agg_vars, add_vars,
                   per_user_credit_cap, plaintext_match_keys, query_size, query_error,
                   oprf_ipa_types>>

\* one of the five arms of the match calls oprf_ipa
OprfIpaCalled ==
    /\ query_pc = "input"
    /\ ss_for_cap(per_user_credit_cap) # NoWidth
    /\ oprf_ipa_types' = [BK |-> QueryBKBits, TV |-> QueryTVBits, TS |-> QueryTSBits,
                          SS |-> ss_for_cap(per_user_credit_cap)]
    /\ query_pc' = "called"
    /\ UNCHANGED <<helper_vars, config_vars, sched_vars, circuit_vars, agg_vars, add_vars,
                   per_user_credit_cap, plaintext_match_keys, query_size, query_error,
                   query_input_len>>

\* the last arm of the match: panic
InvalidCapPanics ==
    /\ query_pc = "input"
    /\ ss_for_cap(per_user_credit_cap) = NoWidth
    /\ query_pc' = "panicked"
    /\ UNCHANGED <<helper_vars, config_vars, sched_vars, circuit_vars, agg_vars, add_vars,
                   per_user_credit_cap, plaintext_match_keys, query_size, query_error,
                   query_input_len, oprf_ipa_types>>

\* the result of oprf_ipa is the result of execute
OprfIpaReturns ==
    /\ query_pc = "called"
    /\ \E ok \in BOOLEAN :
           /\ query_pc' = IF ok THEN "ok" ELSE "err"
           /\ query_error' = IF ok THEN "" ELSE "Protocol"
    /\ UNCHANGED <<helper_vars, config_vars, sched_vars, circuit_vars, agg_vars, add_vars,
                   per_user_credit_cap, plaintext_match_keys, query_size,
                   query_input_len, oprf_ipa_types>>

QueryNext ==
    \/ EncryptedMatchKeysPanic
    \/ InputStreamFails
    \/ InputRead
    \/ OprfIpaCalled
    \/ InvalidCapPanics
    \/ OprfIpaReturns

SpecQuery == QueryInit /\ [][QueryNext]_vars

\* ------------------------------------------------------------------------
\* integer_add and integer_sat_add of addition_low_com
\* ------------------------------------------------------------------------
\* Widest array XS that is added.
MaxAddBits == 3

integer_add_keeping_carry(x, y, k) ==
    LET sum == addition_circuit(x, y, 0, k)
    IN  [value |-> sum.result + sum.carry * (2^k), mults |-> BitSteps(<<>>, k)]

\* integer_add: the adder from a zero carry; the carry is dropped.  One
\* multiplication per bit, at ctx narrowed to the bit.
integer_add(x, y, k) ==
    [value |-> addition_circuit(x, y, 0, k).result, mults |-> BitSteps(<<>>, k)]

integer_sat_add_above_only(x, y, k) ==
    [value |-> IF x + y > 2^k THEN 2^k - 1 ELSE (x + y) % (2^k),
     mults |-> BitSteps(<<"SaturatedAddition">>, k) \cup {StepAt(<<"MultiplyWithCarry">>)}]

integer_sat_add_two_multiplications(x, y, k) ==
    LET sum == addition_circuit(x, y, 0, k)
        carry_array == Expand(sum.carry, k)
    IN  [value |-> ArrayAdd(ArrayMul(carry_array, carry_array, k),
                            ArrayMul(ArrayNot(carry_array, k), sum.result, k), k),
         mults |-> BitSteps(<<"SaturatedAddition">>, k)
                       \cup {StepAt(<<"MultiplyWithCarry">>),
                             StepAt(<<"MultiplyWithNotCarry">>)}]

\* integer_sat_add: the adder under SaturatedAddition, then
\* result + carry_array * (carry_array - result) under MultiplyWithCarry
integer_sat_add(x, y, k) ==
    LET sum == addition_circuit(x, y, 0, k)
        carry_array == Expand(sum.carry, k)
    IN  [value |-> ArrayAdd(sum.result,
                            ArrayMul(carry_array, ArrayAdd(carry_array, sum.result, k), k),
                            k),
         mults |-> BitSteps(<<"SaturatedAddition">>, k)
                       \cup {StepAt(<<"MultiplyWithCarry">>)}]

AddInit ==
    /\ attribution_window_seconds = 0
    /\ ss_bits = MaxSSBits
    /\ HelperIdle
    /\ SchedIdle
    /\ CircuitIdle
    /\ QueryIdle
    /\ add_bits \in 1 .. MaxAddBits
    /\ add_x \in 0 .. (2^add_bits - 1)
    /\ add_y \in 0 .. (2^add_bits - 1)
    /\ add_pc = "call"
    /\ add_out = NoOutput

IntegerAdd ==
    /\ add_pc = "call"
    /\ add_out' = integer_add(add_x, add_y, add_bits)
    /\ add_pc' = "integer_add"
    /\ UNCHANGED <<helper_vars, config_vars, sched_vars, circuit_vars, agg_vars, query_vars,
                   add_bits, add_x, add_y>>

IntegerSatAdd ==
    /\ add_pc = "call"
    /\ add_out' = integer_sat_add(add_x, add_y, add_bits)
    /\ add_pc' = "integer_sat_add"
    /\ UNCHANGED <<helper_vars, config_vars, sched_vars, circuit_vars, agg_vars, query_vars,
                   add_bits, add_x, add_y>>

\* a multiplication of either function fails: the error is returned by `?`
AddFails ==
    /\ add_pc = "call"
    /\ add_pc' = "err"
    /\ UNCHANGED <<helper_vars, config_vars, sched_vars, circuit_vars, agg_vars, query_vars,
                   add_bits, add_x, add_y, add_out>>

AddNext == IntegerAdd \/ IntegerSatAdd \/ AddFails

SpecAdd == AddInit /\ [][AddNext]_vars

\* ------------------------------------------------------------------------
\* Role, Direction, HelperIdentity and RoleAssignment of helpers
\* ------------------------------------------------------------------------
\* Calls of peer made one after the other from one role.
MaxPeerCalls == 2

ipa_vars == <<config_vars, sched_vars, circuit_vars, agg_vars, query_vars, add_vars>>

\* Role::all
RoleAll == <<"H1", "H2", "H3">>
Roles == {"H1", "H2", "H3"}
Directions == {"Left", "Right"}
\* HelperIdentity ONE, TWO, THREE by their id
HelperIdentities == {1, 2, 3}

\* Index<Role>: the position of the role in an array
RoleIndex(r) == CASE r = "H1" -> 0 [] r = "H2" -> 1 [] r = "H3" -> 2

peer_to_the_right(r, direction) ==
    CASE r = "H1" -> "H2"
      [] r = "H2" -> "H3"
      [] r = "H3" -> "H1"

\* Role::peer
peer(r, direction) ==
    CASE (r = "H1" /\ direction = "Left") \/ (r = "H2" /\ direction = "Right") -> "H3"
      [] (r = "H1" /\ direction = "Right") \/ (r = "H3" /\ direction = "Left") -> "H2"
      [] (r = "H3" /\ direction = "Right") \/ (r = "H2" /\ direction = "Left") -> "H1"

\* the panic of RoleAssignment::role
NoRole == "panic"

RECURSIVE role_loop(_, _, _)
role_loop(helper_roles, id, idx) ==
    IF idx = Len(helper_roles) THEN NoRole
    ELSE IF helper_roles[idx + 1] = id THEN RoleAll[idx + 1]
    ELSE role_loop(helper_roles, id, idx + 1)

assignment_role_by_identity_order(helper_roles, id) == RoleAll[id]

\* RoleAssignment::role: the role at the first position that holds id
assignment_role(helper_roles, id) == role_loop(helper_roles, id, 0)

\* RoleAssignment::identity
assignment_identity(helper_roles, r) == helper_roles[RoleIndex(r) + 1]

\* None in the array that try_from fills
NoHelper == 0

RECURSIVE try_from_loop(_, _, _)
try_from_loop(value, i, result) ==
    IF i > Len(value)
    THEN \* result.map(Option::unwrap)
         IF \E j \in DOMAIN result : result[j] = NoHelper
         THEN [kind |-> "panic", helper_roles |-> <<>>, role |-> ""]
         ELSE [kind |-> "Ok", helper_roles |-> result, role |-> ""]
    ELSE IF result[RoleIndex(value[i].role) + 1] # NoHelper
         THEN [kind |-> "Err", helper_roles |-> <<>>, role |-> value[i].role]
         ELSE try_from_loop(value, i + 1,
                            [result EXCEPT ![RoleIndex(value[i].role) + 1] = value[i].helper])

try_from_reporting_last_pair(value) ==
    LET done == try_from_loop(value, 1, <<NoHelper, NoHelper, NoHelper>>)
    IN  IF done.kind = "Ok" THEN done
        ELSE [kind |-> "Err", helper_roles |-> <<>>, role |-> value[Len(value)].role]

\* TryFrom<[(HelperIdentity, Role); 3]> for RoleAssignment
try_from(value) == try_from_loop(value, 1, <<NoHelper, NoHelper, NoHelper>>)

RoleInit ==
    /\ attribution_window_seconds = 0
    /\ ss_bits = MaxSSBits
    /\ ProtocolIdle
    /\ SchedIdle
    /\ CircuitIdle
    /\ QueryIdle
    /\ AddIdle
    /\ TotalIdle
    /\ TransportIdle
    /\ MulIdle
    /\ role_value = <<>>
    /\ role_assignment = NoAssignment
    /\ role_pc = "start"
    /\ role_lookup = NoLookup
    /\ peer_roles \in {<<r>> : r \in Roles}
    /\ peer_directions = <<>>

\* RoleAssignment::new on any array of three helper identities
NewAssignment ==
    /\ role_pc = "start"
    /\ \E helper_roles \in [1 .. 3 -> HelperIdentities] :
           /\ role_value' = helper_roles
           /\ role_assignment' = [kind |-> "Ok", helper_roles |-> helper_roles, role |-> ""]
    /\ role_pc' = "new"
    /\ UNCHANGED <<ipa_vars, join_vars, adder_vars, gateway_vars, mul_vars, total_vars, transport_vars, role_lookup, peer_roles, peer_directions>>

\* RoleAssignment::try_from on any three (helper, role) pairs
TryFromPairs ==
    /\ role_pc = "start"
    /\ \E value \in [1 .. 3 -> [helper : HelperIdentities, role : Roles]] :
           /\ role_value' = value
           /\ role_assignment' = try_from(value)
    /\ role_pc' = "try_from"
    /\ UNCHANGED <<ipa_vars, join_vars, adder_vars, gateway_vars, mul_vars, total_vars, transport_vars, role_lookup, peer_roles, peer_directions>>

\* RoleAssignment::role, which panics when no position holds the identity
RoleLookedUp ==
    /\ role_pc \in {"new", "try_from"}
    /\ role_assignment.kind = "Ok"
    /\ \E id \in HelperIdentities :
           \E found \in {assignment_role(role_assignment.helper_roles, id)} :
               /\ role_lookup' = [fn |-> "role", arg |-> id, result |-> found]
               /\ role_pc' = IF found = NoRole THEN "panicked" ELSE role_pc
    /\ UNCHANGED <<ipa_vars, join_vars, adder_vars, gateway_vars, mul_vars, total_vars, transport_vars, role_value, role_assignment, peer_roles, peer_directions>>

\* RoleAssignment::identity
IdentityLookedUp ==
    /\ role_pc \in {"new", "try_from"}
    /\ role_assignment.kind = "Ok"
    /\ \E r \in Roles :
           role_lookup' = [fn |-> "identity", arg |-> r,
                           result |-> assignment_identity(role_assignment.helper_roles, r)]
    /\ UNCHANGED <<ipa_vars, join_vars, adder_vars, gateway_vars, mul_vars, total_vars, transport_vars, role_value, role_assignment, role_pc, peer_roles,
                   peer_directions>>

\* Role::peer on the role reached last
PeerCalled ==
    /\ Len(peer_directions) < MaxPeerCalls
    /\ \E direction \in Directions :
           /\ peer_directions' = Append(peer_directions, direction)
           /\ peer_roles' = Append(peer_roles, peer(peer_roles[Len(peer_roles)], direction))
    /\ UNCHANGED <<ipa_vars, join_vars, adder_vars, gateway_vars, mul_vars, total_vars, transport_vars, role_value, role_assignment, role_pc, role_lookup>>

RoleNext ==
    \/ NewAssignment
    \/ TryFromPairs
    \/ RoleLookedUp
    \/ IdentityLookedUp
    \/ PeerCalled

SpecRoles == RoleInit /\ [][RoleNext]_vars

\* ------------------------------------------------------------------------
\* One semi-honest multiplication by three helpers, whose channels are
\* resolved from roles to helper identities by RoleResolvingTransport
\* ------------------------------------------------------------------------
\* Fp31 of the test; the additive parts and the PRSS values are drawn from
\* 0 .. MaxShare.
Fp31Prime == 31
MaxShare == 1

Fp(v) == ((v % Fp31Prime) + Fp31Prime) % Fp31Prime

\* ROLE_PERMUTATIONS: the role of helper identity 1, 2, 3
RolePermutations ==
    {rp \in [1 .. 3 -> Roles] : \A i, j \in 1 .. 3 : rp[i] = rp[j] => i = j}

\* TryFrom<[Role; 3]> for RoleAssignment
try_from_roles(value) == try_from([i \in 1 .. 3 |-> [helper |-> i, role |-> value[i]]])

\* the replicated share (left, right) of x held by role r
ShareOf(x, r) == [left |-> x[r], right |-> x[peer(r, "Right")]]

\* the value a helper of role r computes and sends to the right
MaskedProduct(a, b, pads, r) ==
    LET sa == ShareOf(a, r)
        sb == ShareOf(b, r)
    IN  Fp(sa.left * sb.left + sa.left * sb.right + sa.right * sb.left
           + pads[r] - pads[peer(r, "Right")])

NotStarted == [pc |-> "start", local |-> 0, received |-> 0]

MulInit ==
    /\ attribution_window_seconds = 0
    /\ ss_bits = MaxSSBits
    /\ ProtocolIdle
    /\ SchedIdle
    /\ CircuitIdle
    /\ QueryIdle
    /\ AddIdle
    /\ TotalIdle
    /\ TransportIdle
    /\ RoleIdle
    /\ mul_helper_roles \in {try_from_roles(rp).helper_roles : rp \in RolePermutations}
    /\ mul_a \in [Roles -> 0 .. MaxShare]
    /\ mul_b \in [Roles -> 0 .. MaxShare]
    /\ mul_pads \in [Roles -> 0 .. MaxShare]
    /\ mul_net = {}
    /\ mul_helpers = [h \in HelperIdentities |-> NotStarted]

\* RoleResolvingTransport::send to the peer on the right: the helper of
\* identity h computes its masked product and sends it
MultiplySends(h) ==
    /\ mul_helpers[h].pc = "start"
    /\ \E r \in {assignment_role(mul_helper_roles, h)} :
       \E dest_identity \in {assignment_identity(mul_helper_roles, peer(r, "Right"))} :
       \E d \in {MaskedProduct(mul_a, mul_b, mul_pads, r)} :
           IF dest_identity = h
           THEN /\ mul_helpers' = [mul_helpers EXCEPT ![h].pc = "panicked"]
                /\ UNCHANGED mul_net
           ELSE /\ mul_helpers' = [mul_helpers EXCEPT ![h].pc = "sent", ![h].local = d]
                /\ mul_net' = mul_net \cup {[from |-> h, to |-> dest_identity, value |-> d]}
    /\ UNCHANGED <<ipa_vars, join_vars, adder_vars, gateway_vars, role_vars, total_vars, transport_vars,
                   mul_helper_roles, mul_a, mul_b, mul_pads>>

\* RoleResolvingTransport::receive from the peer on the left
MultiplyReceives(h) ==
    /\ mul_helpers[h].pc = "sent"
    /\ \E r \in {assignment_role(mul_helper_roles, h)} :
       \E from_identity \in {assignment_identity(mul_helper_roles, peer(r, "Left"))} :
           IF from_identity = h
           THEN mul_helpers' = [mul_helpers EXCEPT ![h].pc = "panicked"]
           ELSE \E m \in mul_net :
                    /\ m.from = from_identity
                    /\ m.to = h
                    /\ mul_helpers' = [mul_helpers EXCEPT ![h].pc = "done",
                                                          ![h].received = m.value]
    /\ UNCHANGED <<ipa_vars, join_vars, adder_vars, gateway_vars, role_vars, total_vars, transport_vars,
                   mul_helper_roles, mul_a, mul_b, mul_pads, mul_net>>

MulNext == \E h \in HelperIdentities : MultiplySends(h) \/ MultiplyReceives(h)

SpecMul == MulInit /\ [][MulNext]_vars

\* ------------------------------------------------------------------------
\* HttpTransport: record_streams and the future returned by complete_query
\* ------------------------------------------------------------------------
\* Queries completed one after the other on one transport, and gates at which
\* a peer sends a stream.
MaxQueries == 2
MaxGates == 2

\* the identity of the transport and the two other helpers
TransportIdentity == 1
Peers == HelperIdentities \ {TransportIdentity}

\* StreamCollection::clear
clear(streams) == {}

drop_without_clear(transport_streams) == transport_streams

\* Drop for ClearOnDrop
drop(transport_streams) == clear(transport_streams)

TransportInit ==
    /\ attribution_window_seconds = 0
    /\ ss_bits = MaxSSBits
    /\ ProtocolIdle
    /\ SchedIdle
    /\ CircuitIdle
    /\ QueryIdle
    /\ AddIdle
    /\ RoleIdle
    /\ MulIdle
    /\ TotalIdle
    /\ record_streams = {}
    /\ complete_pc = "idle"
    /\ drops = 0
    /\ dropped_from = NoDrop

\* receive_stream: a peer connects a stream of records; the key is
\* (query_id, from, gate) and QueryId has one value.  A key already held is
\* not added again.
ReceiveStream ==
    /\ \E from \in Peers, gate \in 1 .. MaxGates :
           /\ \A s \in record_streams : ~(s.from = from /\ s.gate = gate)
           /\ record_streams' =
                  record_streams \cup {[from |-> from, gate |-> gate, epoch |-> drops]}
    /\ UNCHANGED <<ipa_vars, join_vars, adder_vars, gateway_vars, role_vars, mul_vars, total_vars, complete_pc, drops,
                   dropped_from>>

\* complete_query: the future ClearOnDrop is created around the callback's
CompleteQueryCalled ==
    /\ complete_pc = "idle"
    /\ drops < MaxQueries
    /\ complete_pc' = "pending"
    /\ UNCHANGED <<ipa_vars, join_vars, adder_vars, gateway_vars, role_vars, mul_vars, total_vars, record_streams, drops,
                   dropped_from>>

\* poll: the inner future is ready with Ok or Err, or panics
CompleteQueryPolled ==
    /\ complete_pc = "pending"
    /\ complete_pc' \in {"ok", "err", "panicking"}
    /\ UNCHANGED <<ipa_vars, join_vars, adder_vars, gateway_vars, role_vars, mul_vars, total_vars, record_streams, drops,
                   dropped_from>>

\* the future is dropped: by its owner after it is ready, by the unwinding
\* of the panic, or before it is ready (cancelled)
CompleteQueryDropped ==
    /\ complete_pc \in {"pending", "ok", "err", "panicking"}
    /\ record_streams' = drop(record_streams)
    /\ dropped_from' = [pc |-> complete_pc, held |-> Cardinality(record_streams)]
    /\ drops' = drops + 1
    /\ complete_pc' = "idle"
    /\ UNCHANGED <<ipa_vars, join_vars, adder_vars, gateway_vars, role_vars, mul_vars, total_vars>>

TransportNext ==
    \/ ReceiveStream
    \/ CompleteQueryCalled
    \/ CompleteQueryPolled
    \/ CompleteQueryDropped

SpecTransport == TransportInit /\ [][TransportNext]_vars

\* ------------------------------------------------------------------------
\* TotalRecords of a context
\* ------------------------------------------------------------------------
\* Largest record count and number of calls of overwrite on one context.
MaxTotal == 3
MaxOverwrites == 4

TotalRecordsValues == {Unspecified, Indeterminate} \cup {Specified(n) : n \in 1 .. MaxTotal}

\* the panic of overwrite
BadTransition == [kind |-> "panic", count |-> 0]

\* From<usize> for TotalRecords
from_usize(value) == IF value = 0 THEN Unspecified ELSE Specified(value)

\* TotalRecords::count, None as 0
count(t) == IF t.kind = "Specified" THEN t.count ELSE 0

overwrite_specified_again(old, value) ==
    CASE old.kind = "Unspecified" -> value
      [] value.kind = "Unspecified" -> BadTransition
      [] old.kind = "Specified" -> value
      [] OTHER -> BadTransition

overwrite_ignoring_unspecified(old, value) ==
    CASE old.kind = "Unspecified" -> value
      [] value.kind = "Unspecified" -> old
      [] old.kind = "Specified" /\ value.kind = "Indeterminate" -> Indeterminate
      [] OTHER -> BadTransition

\* TotalRecords::overwrite, the arms of the match in their order
overwrite(old, value) ==
    CASE old.kind = "Unspecified" -> value
      [] value.kind = "Unspecified" -> BadTransition
      [] old.kind = "Specified" /\ value.kind = "Indeterminate" -> Indeterminate
      [] OTHER -> BadTransition

TotalInit ==
    /\ attribution_window_seconds = 0
    /\ ss_bits = MaxSSBits
    /\ ProtocolIdle
    /\ SchedIdle
    /\ CircuitIdle
    /\ QueryIdle
    /\ AddIdle
    /\ RoleIdle
    /\ MulIdle
    /\ TransportIdle
    /\ total_records = Unspecified
    /\ total_pc = "running"
    /\ total_set = 0
    /\ total_call = NoOverwrite

\* the state after self.overwrite(value) where value converts to `given`
Overwritten(given, usize) ==
    \E new \in {overwrite(total_records, given)} :
        /\ total_call' = [old |-> total_records, value |-> given, usize |-> usize,
                          panicked |-> (new = BadTransition),
                          calls |-> total_call.calls + 1]
        /\ IF new = BadTransition
           THEN /\ total_pc' = "panicked"
                /\ UNCHANGED <<total_records, total_set>>
           ELSE /\ total_records' = new
                /\ total_set' = IF total_set = 0 THEN count(new) ELSE total_set
                /\ UNCHANGED total_pc

\* overwrite with a TotalRecords value
OverwriteWithTotalRecords ==
    /\ total_pc = "running"
    /\ total_call.calls < MaxOverwrites
    /\ \E value \in TotalRecordsValues : Overwritten(value, NoUsize)
    /\ UNCHANGED <<ipa_vars, join_vars, adder_vars, gateway_vars, role_vars, mul_vars, transport_vars>>

\* overwrite with a usize, converted by From<usize>
OverwriteWithUsize ==
    /\ total_pc = "running"
    /\ total_call.calls < MaxOverwrites
    /\ \E value \in 0 .. MaxTotal : Overwritten(from_usize(value), value)
    /\ UNCHANGED <<ipa_vars, join_vars, adder_vars, gateway_vars, role_vars, mul_vars, transport_vars>>

TotalNext == OverwriteWithTotalRecords \/ OverwriteWithUsize

SpecTotal == TotalInit /\ [][TotalNext]_vars

\* ------------------------------------------------------------------------
\* attribute_cap_aggregate on the three helpers: the per-user circuits and
\* the multiplications they wait for
\* ------------------------------------------------------------------------
\* The cleartext grouping column: up to MaxJoinUsers users of up to
\* MaxJoinRunLen rows.
MaxJoinUsers == 2
MaxJoinRunLen == 3

JoinColumns ==
    {RowsOfRuns(lens, "fresh", 1) :
        lens \in UNION {[1 .. n -> 1 .. MaxJoinRunLen] : n \in 1 .. MaxJoinUsers}}

\* The awaits of compute_row_with_previous, in order, each with the steps
\* whose multiplications it waits for: try_join3, the zeroing of the trigger
\* value, the saturating sum, try_join, and the capped value.
RowAwaits ==
    << {"EverEncounteredSourceEvent", "AttributedBreakdownKey", "SourceEventTimestamp"},
       {"AttributedTriggerValue"},
       {"ComputeSaturatingSum"},
       {"IsSaturatedAndPrevRowNotSaturated", "ComputeDifferenceToCap"},
       {"ComputedCappedAttributedTriggerValueNotSaturatedCase",
        "ComputedCappedAttributedTriggerValueJustSaturatedCase"} >>

\* only the circuit created last is polled
driven_newest_only(yielded_so_far, dispatched_so_far) ==
    IF yielded_so_far < dispatched_so_far THEN {dispatched_so_far} ELSE {}

\* seq_join polls every future it holds: those created and not yet yielded
driven(yielded_so_far, dispatched_so_far) == yielded_so_far + 1 .. dispatched_so_far

\* the next row starts although the awaits of this one are not over
next_await_starts_next_row(output_len, stage) ==
    [output_len |-> output_len + 1, stage |-> 1]

\* where a circuit stands after the await `stage` of the row after
\* output_len rows has returned: at the next await, or, after the last one,
\* with the state updated and the output pushed, at the next row
next_await(output_len, stage) ==
    IF stage = Len(RowAwaits)
    THEN [output_len |-> output_len + 1, stage |-> 1]
    ELSE [output_len |-> output_len, stage |-> stage + 1]

\* the multiplications a circuit waits for at its current await
AwaitedBy(c) ==
    [row       |-> helpers_ctx_for_row_number[c.output_len + 1].row,
     stage     |-> c.stage,
     record_id |-> c.record_ids[c.output_len + 2]]

JoinInit ==
    /\ attribution_window_seconds = 0
    /\ ss_bits = MaxSSBits
    /\ SchedIdle
    /\ CircuitIdle
    /\ QueryIdle
    /\ AddIdle
    /\ RoleIdle
    /\ MulIdle
    /\ TotalIdle
    /\ TransportIdle
    /\ AdderIdle
    /\ GatewayIdle
    /\ \E input \in JoinColumns :
          \E h \in {compute_histogram_of_users_with_row_count(input)} :
              /\ helpers_collected = sort_by_len(chunk_rows_by_user(input))
              /\ helpers_ctx_for_row_number = set_up_contexts(h)
              /\ helpers_counters = [id \in HelperIdentities |-> [n \in 1 .. Len(h) |-> 0]]
    /\ helpers_active_work \in [HelperIdentities -> 1 .. MaxActiveWork]
    /\ helpers_dispatched = [id \in HelperIdentities |-> 0]
    /\ helpers_yielded = [id \in HelperIdentities |-> 0]
    /\ helpers_circuits = [id \in HelperIdentities |-> <<>>]
    /\ helpers_issued = [id \in HelperIdentities |-> {}]
    /\ helpers_completed = [id \in HelperIdentities |-> {}]

\* seq_join of helper id takes the next chunk from the stream: the closure
\* copies the record ids of the user and increments the counters
JoinCircuitCreated(id) ==
    /\ helpers_dispatched[id] < Len(helpers_collected)
    /\ helpers_dispatched[id] - helpers_yielded[id] < helpers_active_work[id]
    /\ LET num_user_rows == Len(helpers_collected[helpers_dispatched[id] + 1])
       IN  /\ helpers_circuits' = [helpers_circuits EXCEPT ![id] = Append(@,
                 [record_ids    |-> record_ids(helpers_counters[id], num_user_rows),
                  num_user_rows |-> num_user_rows,
                  output_len    |-> 0,
                  stage         |-> 1,
                  awaiting      |-> FALSE])]
           /\ helpers_counters' = [helpers_counters EXCEPT ![id] =
                 incremented(@, num_user_rows)]
    /\ helpers_dispatched' = [helpers_dispatched EXCEPT ![id] = @ + 1]
    /\ UNCHANGED <<ipa_vars, role_vars, mul_vars, total_vars, transport_vars, adder_vars,
                   gateway_vars, helpers_collected, helpers_ctx_for_row_number,
                   helpers_active_work, helpers_yielded, helpers_issued,
                   helpers_completed>>

\* circuit j of helper id is polled and reaches its next await: the
\* multiplications of that await are issued under the context of the row and
\* the record id of its depth
MultiplicationsIssued(id, j) ==
    /\ j \in driven(helpers_yielded[id], helpers_dispatched[id])
    /\ LET c == helpers_circuits[id][j]
       IN  /\ ~c.awaiting
           /\ c.output_len < skip_first(c.num_user_rows)
           /\ helpers_issued' = [helpers_issued EXCEPT ![id] = @ \cup {AwaitedBy(c)}]
           /\ helpers_circuits' = [helpers_circuits EXCEPT ![id][j].awaiting = TRUE]
    /\ UNCHANGED <<ipa_vars, role_vars, mul_vars, total_vars, transport_vars, adder_vars,
                   gateway_vars, helpers_collected, helpers_ctx_for_row_number,
                   helpers_active_work, helpers_counters, helpers_dispatched,
                   helpers_yielded, helpers_completed>>

\* the multiplications that circuit j of helper id waits for return, the
\* three helpers having issued them; after the last await of the row the
\* state is updated and the output pushed
MultiplicationsReturned(id, j) ==
    /\ j \in driven(helpers_yielded[id], helpers_dispatched[id])
    /\ LET c == helpers_circuits[id][j]
       IN  /\ c.awaiting
           /\ \A peer_id \in HelperIdentities : AwaitedBy(c) \in helpers_issued[peer_id]
           /\ helpers_completed' = [helpers_completed EXCEPT ![id] = @ \cup {AwaitedBy(c)}]
           /\ \E next \in {next_await(c.output_len, c.stage)} :
                 helpers_circuits' = [helpers_circuits EXCEPT ![id][j] =
                     [c EXCEPT !.awaiting = FALSE,
                               !.output_len = next.output_len,
                               !.stage = next.stage]]
    /\ UNCHANGED <<ipa_vars, role_vars, mul_vars, total_vars, transport_vars, adder_vars,
                   gateway_vars, helpers_collected, helpers_ctx_for_row_number,
                   helpers_active_work, helpers_counters, helpers_dispatched,
                   helpers_yielded, helpers_issued>>

\* seq_join of helper id yields the output of its oldest circuit, which has
\* returned
JoinCircuitYielded(id) ==
    /\ helpers_yielded[id] < helpers_dispatched[id]
    /\ LET c == helpers_circuits[id][helpers_yielded[id] + 1]
       IN  c.output_len = skip_first(c.num_user_rows)
    /\ helpers_yielded' = [helpers_yielded EXCEPT ![id] = @ + 1]
    /\ UNCHANGED <<ipa_vars, role_vars, mul_vars, total_vars, transport_vars, adder_vars,
                   gateway_vars, helpers_collected, helpers_ctx_for_row_number,
                   helpers_active_work, helpers_counters, helpers_dispatched,
                   helpers_circuits, helpers_issued, helpers_completed>>

JoinNext ==
    \E id \in HelperIdentities :
        \/ JoinCircuitCreated(id)
        \/ \E j \in DOMAIN helpers_circuits[id] : MultiplicationsIssued(id, j)
        \/ \E j \in DOMAIN helpers_circuits[id] : MultiplicationsReturned(id, j)
        \/ JoinCircuitYielded(id)

\* a helper that can take a step takes one
SpecHelpers == JoinInit /\ [][JoinNext]_vars /\ WF_vars(JoinNext)

\* ------------------------------------------------------------------------
\* addition_circuit, bit by bit
\* ------------------------------------------------------------------------
\* Record ids of the caller.
MaxAdderRecordId == 1

AdderInit ==
    /\ attribution_window_seconds = 0
    /\ ss_bits = MaxSSBits
    /\ SchedIdle
    /\ CircuitIdle
    /\ QueryIdle
    /\ AddIdle
    /\ RoleIdle
    /\ MulIdle
    /\ TotalIdle
    /\ TransportIdle
    /\ JoinIdle
    /\ GatewayIdle
    /\ adder_bits \in 1 .. MaxAddBits
    /\ adder_x \in 0 .. (2^adder_bits - 1)
    /\ adder_y \in 0 .. (2^adder_bits - 1)
    /\ adder_record_id \in 0 .. MaxAdderRecordId
    /\ adder_carry \in 0 .. 1
    /\ adder_i = 0
    /\ adder_result = 0
    /\ adder_pc = "loop"
    /\ adder_trace = <<>>

\* bit_adder for bit i is polled: the multiplication of (x + carry) by
\* (y + carry) is issued at ctx.narrow(&BitOpStep::from(i)) with record_id
BitMultiplyIssued ==
    /\ adder_pc = "loop"
    /\ adder_i < adder_bits
    /\ adder_trace' = Append(adder_trace,
           [event |-> "issued", step |-> adder_i, record_id |-> adder_record_id])
    /\ adder_pc' = "multiply"
    /\ UNCHANGED <<ipa_vars, role_vars, mul_vars, total_vars, transport_vars, join_vars,
                   gateway_vars, adder_bits, adder_x, adder_y, adder_record_id, adder_i,
                   adder_carry, adder_result>>

\* the multiplication returns: *carry is assigned, bit_adder returns its
\* output, result.set(i, ..) and the loop goes to the next bit
BitMultiplyReturned ==
    /\ adder_pc = "multiply"
    /\ \E b \in {bit_adder(Bit(adder_x, adder_i), Bit(adder_y, adder_i), adder_carry)} :
          /\ adder_carry' = b.carry
          /\ adder_result' = adder_result + b.output * (2^adder_i)
    /\ adder_trace' = Append(adder_trace,
           [event |-> "returned", step |-> adder_i, record_id |-> adder_record_id])
    /\ adder_i' = adder_i + 1
    /\ adder_pc' = "loop"
    /\ UNCHANGED <<ipa_vars, role_vars, mul_vars, total_vars, transport_vars, join_vars,
                   gateway_vars, adder_bits, adder_x, adder_y, adder_record_id>>

\* the multiplication fails: `?` returns the error from addition_circuit
BitMultiplyFails ==
    /\ adder_pc = "multiply"
    /\ adder_pc' = "err"
    /\ UNCHANGED <<ipa_vars, role_vars, mul_vars, total_vars, transport_vars, join_vars,
                   gateway_vars, adder_bits, adder_x, adder_y, adder_record_id, adder_i,
                   adder_carry, adder_result, adder_trace>>

\* Ok(result)
AdderReturns ==
    /\ adder_pc = "loop"
    /\ adder_i = adder_bits
    /\ adder_pc' = "returned"
    /\ UNCHANGED <<ipa_vars, role_vars, mul_vars, total_vars, transport_vars, join_vars,
                   gateway_vars, adder_bits, adder_x, adder_y, adder_record_id, adder_i,
                   adder_carry, adder_result, adder_trace>>

AdderNext ==
    \/ BitMultiplyIssued
    \/ BitMultiplyReturned
    \/ BitMultiplyFails
    \/ AdderReturns

SpecAdder == AdderInit /\ [][AdderNext]_vars

\* ------------------------------------------------------------------------
\* RoleResolvingTransport: the adapter between a gateway and its transport
\* ------------------------------------------------------------------------
\* the panics of assert_ne!
SendToItself == "can't send message to itself"
ReceiveFromItself == "can't receive message from itself"

\* send without assert_ne!
send_without_assert(roles, inner_identity, query_id, channel_role, channel_step) ==
    [panic |-> "",
     inner |-> {[fn |-> "send",
                 peer |-> assignment_identity(roles, channel_role),
                 route |-> <<"Records", query_id, channel_step>>]}]

\* RoleResolvingTransport::send: the panic of assert_ne!, or the call of
\* inner.send(dest_identity, (RouteId::Records, query_id, step), data)
send(roles, inner_identity, query_id, channel_role, channel_step) ==
    LET dest_identity == assignment_identity(roles, channel_role)
    IN  IF dest_identity = inner_identity
        THEN [panic |-> SendToItself, inner |-> {}]
        ELSE [panic |-> "",
              inner |-> {[fn |-> "send",
                          peer |-> dest_identity,
                          route |-> <<"Records", query_id, channel_step>>]}]

\* RoleResolvingTransport::receive: the panic of assert_ne!, or the call of
\* inner.receive(peer, (query_id, step))
receive(roles, inner_identity, query_id, channel_role, channel_step) ==
    LET from_peer == assignment_identity(roles, channel_role)
    IN  IF from_peer = inner_identity
        THEN [panic |-> ReceiveFromItself, inner |-> {}]
        ELSE [panic |-> "",
              inner |-> {[fn |-> "receive",
                          peer |-> from_peer,
                          route |-> <<query_id, channel_step>>]}]

\* a gateway is created per query with the roles of the query; the
\* RoleAssignment holds any three helper identities (RoleAssignment::new)
GatewayInit ==
    /\ attribution_window_seconds = 0
    /\ ss_bits = MaxSSBits
    /\ SchedIdle
    /\ CircuitIdle
    /\ QueryIdle
    /\ AddIdle
    /\ RoleIdle
    /\ MulIdle
    /\ TotalIdle
    /\ TransportIdle
    /\ JoinIdle
    /\ AdderIdle
    /\ gateway_roles \in [1 .. 3 -> HelperIdentities]
    /\ gateway_identity \in HelperIdentities
    /\ gateway_query_id \in 1 .. MaxQueries
    /\ gateway_pc = "ready"
    /\ gateway_call = NoGatewayCall
    /\ gateway_inner = {}

\* a call of send or receive on a channel (role, step)
GatewayCalled(fn, call, channel_role, channel_step) ==
    /\ gateway_pc = "ready"
    /\ gateway_call' = [fn |-> fn, role |-> channel_role, step |-> channel_step,
                        outcome |-> call.panic]
    /\ gateway_inner' = gateway_inner \cup call.inner
    /\ gateway_pc' = IF call.panic = "" THEN "ready" ELSE "panicked"
    /\ UNCHANGED <<ipa_vars, role_vars, mul_vars, total_vars, transport_vars, join_vars,
                   adder_vars, gateway_roles, gateway_identity, gateway_query_id>>

GatewaySend ==
    \E channel_role \in Roles, channel_step \in 1 .. MaxGates :
        \E call \in {send(gateway_roles, gateway_identity, gateway_query_id,
                          channel_role, channel_step)} :
            GatewayCalled("send", call, channel_role, channel_step)

GatewayReceive ==
    \E channel_role \in Roles, channel_step \in 1 .. MaxGates :
        \E call \in {receive(gateway_roles, gateway_identity, gateway_query_id,
                             channel_role, channel_step)} :
            GatewayCalled("receive", call, channel_role, channel_step)

\* RoleResolvingTransport::role: roles.role(inner.identity()), which panics
\* when no role holds the identity
GatewayRole ==
    /\ gateway_pc = "ready"
    /\ \E r \in {assignment_role(gateway_roles, gateway_identity)} :
          /\ gateway_call' = [fn |-> "role", role |-> r, step |-> 0,
                              outcome |-> IF r = NoRole THEN "no role" ELSE ""]
          /\ gateway_pc' = IF r = NoRole THEN "panicked" ELSE "ready"
    /\ UNCHANGED <<ipa_vars, role_vars, mul_vars, total_vars, transport_vars, join_vars,
                   adder_vars, gateway_roles, gateway_identity, gateway_query_id,
                   gateway_inner>>

GatewayNext == GatewaySend \/ GatewayReceive \/ GatewayRole

SpecGateway == GatewayInit /\ [][GatewayNext]_vars

\* ------------------------------------------------------------------------
\* Properties of the per-user circuit
\* ------------------------------------------------------------------------
\* the step taken is an iteration of the loop of the circuit
RowTaken == Len(output') = Len(output) + 1

\* C2: for one user with |TV| <= |SS|, the capped trigger values of the output
\* rows produced so far sum to min(T, 2^|SS|), where T is the sum of the
\* attributed trigger values of those rows.
C2_CappedSumIsMinOfTotalAndCap ==
    (TVBits <= ss_bits) =>
        ref.capped_total = Min(ref.attributed_total, 2^ss_bits)

\* the user's attributed trigger values add up to the cap exactly, on the row
\* that overflows the saturating sum
C2_Witness ==
    /\ last_call.made
    /\ last_call.overflow_bit = 1
    /\ ref.attributed_total = 2^ss_bits
    /\ ref.capped_total = 2^ss_bits

\* C3: the breakdown key of every output row is the key of the most recent
\* source event among the rows read so far, or the first row's key when no row
\* after the first is a source event; a trigger row leaves the carried key as
\* it was.
C3_LastTouchAttribution ==
    [][RowTaken =>
          /\ last_call'.attributed_breakdown_key_bits = ref'.source_bk
          /\ prev_row_inputs'.attributed_breakdown_key_bits = ref'.source_bk
          /\ (last_call'.is_trigger_bit = 1 =>
                 prev_row_inputs'.attributed_breakdown_key_bits
                     = prev_row_inputs.attributed_breakdown_key_bits)]_vars

\* a trigger row read after a source row that changed the key from the first
\* row's key
C3_Witness ==
    /\ last_call.made
    /\ last_call.is_trigger_bit = 1
    /\ Len(output) >= 2
    /\ ref.seen_source
    /\ last_call.attributed_breakdown_key_bits = 1

\* C4: a trigger row read while ever_encountered_a_source_event is 0 has
\* attributed and capped trigger value 0 and leaves saturating_sum and
\* is_saturated unchanged.
C4_UnattributedTriggerContributesZero ==
    [][(RowTaken /\ prev_row_inputs.ever_encountered_a_source_event = 0
                 /\ last_call'.is_trigger_bit = 1) =>
          /\ last_call'.attributed_trigger_value = 0
          /\ last_call'.capped_attributed_trigger_value = 0
          /\ prev_row_inputs'.saturating_sum = prev_row_inputs.saturating_sum
          /\ prev_row_inputs'.is_saturated = prev_row_inputs.is_saturated]_vars

\* a trigger row with a non-zero value, no source event before it
C4_Witness ==
    /\ last_call.made
    /\ last_call.is_trigger_bit = 1
    /\ last_call.trigger_value > 0
    /\ prev_row_inputs.ever_encountered_a_source_event = 0

\* C5: a call with N rows returns N-1 output rows, computed from rows 1 .. N-1
\* in that order; the first row produces none, and a call with one row issues
\* no multiplication.
C5_OneOutputPerRowAfterFirst ==
    /\ (pc = "returned" => output = [i \in 1 .. (rows_len - 1) |-> i])
    /\ ((pc = "loop" /\ ~last_call.made) => (output = <<>> /\ mults = 0))
    /\ ((pc = "returned" /\ rows_len = 1) => mults = 0)

\* a call with several rows has returned
C5_Witness == pc = "returned" /\ rows_len >= 3 /\ Len(output) = rows_len - 1

\* C6: is_saturated is 0 after the first row and, once 1, stays 1.
C6_IsSaturatedMonotone ==
    [][/\ ((pc = "entry" /\ pc' = "loop") => prev_row_inputs'.is_saturated = 0)
       /\ (prev_row_inputs.is_saturated = 1 => prev_row_inputs'.is_saturated = 1)]_vars

\* a row read after saturation overflows the sum once more
C6_Witness ==
    /\ last_call.made
    /\ last_call.overflow_bit = 1
    /\ last_call.overflow_bit_and_prev_row_not_saturated = 0
    /\ prev_row_inputs.is_saturated = 1

\* C7: with a window W a trigger row is credited exactly when a source event
\* precedes it and it is at most W after the most recent source event; with no
\* window, exactly when a source event precedes it.  A credited row is
\* attributed its trigger value and any other row 0.
C7_CreditedIffWithinWindow ==
    last_call.made =>
        /\ (last_call.zero_out_flag = 1) <=> ref.credited
        /\ last_call.attributed_trigger_value
               = (IF ref.credited THEN last_call.trigger_value ELSE 0)

\* a trigger exactly W after the most recent source event is credited
C7_Witness ==
    /\ last_call.made
    /\ attribution_window_seconds # 0
    /\ last_call.is_trigger_bit = 1
    /\ ref.last_ts - ref.source_ts = attribution_window_seconds
    /\ last_call.trigger_value > 0
    /\ last_call.attributed_trigger_value = last_call.trigger_value

\* ------------------------------------------------------------------------
\* Properties of the histogram, the contexts and the record ids
\* ------------------------------------------------------------------------
\* rows with the same grouping key are adjacent
Contiguous(input) ==
    \A a, b \in DOMAIN input :
        (a < b /\ input[a] = input[b]) => \A c \in a .. b : input[c] = input[a]

Users(input) == {input[n] : n \in DOMAIN input}

RowCount(input, key) == Cardinality({n \in DOMAIN input : input[n] = key})

UsersWithAtLeast(input, rows) ==
    Cardinality({key \in Users(input) : RowCount(input, key) >= rows})

RECURSIVE SumOf(_)
SumOf(s) == IF s = <<>> THEN 0 ELSE s[1] + SumOf(Tail(s))

\* the histogram argument is the one computed from the input
HistogramComputed ==
    /\ input_prf # <<>>
    /\ histogram = compute_histogram_of_users_with_row_count(input_prf)

TwoUsersWith3And7Rows ==
    /\ Contiguous(input_prf)
    /\ Cardinality(Users(input_prf)) = 2
    /\ {RowCount(input_prf, key) : key \in Users(input_prf)} = {3, 7}

\* the record ids handed out under Row(d)
CallsUnderRow(d) == {c \in BagToSet(issued) : c.row = d}

\* For an input of two users with 3 and 7 rows: the histogram is h; the
\* contexts created are those of Row(1) .. Row(6); and when the run is over
\* the number of record ids issued at depth d is h[d].
ThreeAndSevenRowsGive(h) ==
    TwoUsersWith3And7Rows =>
        /\ compute_histogram_of_users_with_row_count(input_prf) = h
        /\ (HistogramComputed /\ sched_pc \in {"running", "done"}) =>
              /\ Len(ctx_for_row_number) = 6
              /\ \A d \in 1 .. 6 : ctx_for_row_number[d].row = d
        /\ (HistogramComputed /\ sched_pc = "done") =>
              /\ record_id_for_row_depth = h
              /\ \A d \in 1 .. 6 :
                    /\ Cardinality(CallsUnderRow(d)) = h[d + 1]
                    /\ \A c \in CallsUnderRow(d) : CopiesIn(c, issued) = 1

\* C9 as stated: for an input of two users with 3 and 7 rows the histogram is
\* [2,2,1,1,1,1,1], the contexts created are those of Row(1) .. Row(6), and
\* the number of record ids issued at depth d is histogram[d].
C9_HistogramAsStated == ThreeAndSevenRowsGive(<<2, 2, 1, 1, 1, 1, 1>>)

\* C9, amended: for an input of two users with 3 and 7 rows the histogram is
\* [2,2,2,1,1,1,1] (both users have a third row), the contexts created are
\* those of Row(1) .. Row(6), and the number of record ids issued at depth d
\* is histogram[d].
C9_TwoUsersThreeAndSevenRows == ThreeAndSevenRowsGive(<<2, 2, 2, 1, 1, 1, 1>>)

\* a finished run on the two users, two circuits pending at a time
C9_Witness ==
    /\ TwoUsersWith3And7Rows
    /\ HistogramComputed
    /\ active_work = 2
    /\ sched_pc = "done"
    /\ BagCardinality(issued) = 8

\* C10: when the histogram passed is the one computed from the input, then at
\* the end of the run, for every depth d >= 1 and every multiplication step
\* under Row(d), the record ids issued are 0 .. histogram[d] - 1, each exactly
\* once, and histogram[d] is the total_records of the Row(d) context; at no
\* time have two multiplications of the stage the same step and record id.
C10_RecordIdsContiguousPerStep ==
    /\ (HistogramComputed /\ sched_pc = "done") =>
          \A d \in 1 .. Len(histogram) - 1 :
              /\ ctx_for_row_number[d] = [row |-> d, total_records |-> histogram[d + 1]]
              /\ \A step \in RowSteps(attribution_window_seconds, ss_bits) :
                    MultiplicationsUnder(d, step) =
                        [r \in 0 .. histogram[d + 1] - 1 |-> 1]
    /\ \A c \in BagToSet(issued) :
          \A step \in RowSteps(attribution_window_seconds, ss_bits) :
              MultiplicationsUnder(c.row, step)[c.record_id] = 1
    /\ \A m1, m2 \in BagToSet(moved) :
          /\ CopiesIn(m1, moved) = 1
          /\ m1.record_id = m2.record_id => m1 = m2

\* a finished run in which two users reach depth 2 and two circuits were
\* pending at a time
C10_Witness ==
    /\ HistogramComputed
    /\ sched_pc = "done"
    /\ active_work >= 2
    /\ Len(histogram) >= 3
    /\ histogram[3] >= 2
    /\ \E c \in BagToSet(issued) : c.row = 2 /\ c.record_id = 1

\* ------------------------------------------------------------------------
\* Properties of the aggregate
\* ------------------------------------------------------------------------
\* C1: for an input grouped by user and time-ordered within a user, with the
\* histogram computed from it and |TV| <= |SS|, the vector returned by
\* attribute_cap_aggregate has 2^|BK| entries, and entry b is the sum over
\* the users and their rows after the first of the capped trigger values of
\* the rows attributed to breakdown key b; the sums folded so far are those
\* of the users whose output was yielded.
C1_AggregateIsPlaintextReference ==
    /\ sched_pc = "done" =>
          /\ result_len = 2^BKBits
          /\ Len(running_sums) = 2^BKBits
          /\ running_sums = expected.sums
          /\ expected.rows = Len(input_prf) - Cardinality(Users(input_prf))
    /\ (sched_pc = "running" /\ pc = "idle") => running_sums = expected.sums

\* a finished run with two users of different row counts, the shorter one
\* first in the input, in which both buckets received a contribution and a
\* user reached the cap
C1_Witness ==
    /\ sched_pc = "done"
    /\ Len(collected) = 2
    /\ Len(collected[1]) > Len(collected[2])
    /\ collected[1][1] > collected[2][1]
    /\ Len(collected[2]) > 1
    /\ \A b \in 1 .. 2^BKBits : running_sums[b] > 0
    /\ \E b \in 1 .. 2^BKBits : running_sums[b] >= 2^ss_bits

\* ------------------------------------------------------------------------
\* Properties of the chunks, of the empty and the one-row input and of failures
\* ------------------------------------------------------------------------
\* C12: every chunk that chunk_rows_by_user emits has at least 2 rows, all rows
\* of a chunk have one prf_of_match_key, and the rows of a chunk are in input
\* order.
C12_EveryChunkHasTwoRows ==
    sched_pc \in {"running", "done"} =>
        \A n \in DOMAIN collected :
            LET chunk == collected[n]
            IN  /\ Len(chunk) >= 2
                /\ \A a, b \in DOMAIN chunk : input_prf[chunk[a]] = input_prf[chunk[b]]
                /\ \A a, b \in DOMAIN chunk : a < b => chunk[a] < chunk[b]

\* C13: a run of attribute_cap_aggregate on an empty input does not panic and
\* returns a vector of 2^|BK| entries (all zero).
C13_EmptyInputYieldsZeros ==
    input_prf = <<>> =>
        /\ sched_pc # "panicked"
        /\ sched_pc = "done" => result_len = 2^BKBits

\* the input is one user with one row, and the histogram is [1]
SingleUserSingleRow == Len(input_prf) = 1 /\ histogram = <<1>>

\* C14: on an input of a single user with a single row (histogram [1])
\* attribute_cap_aggregate does not panic, issues no multiplication, runs to
\* its end and returns 2^|BK| entries that are all zero.
C14_SingleRowInputYieldsZeros ==
    SingleUserSingleRow =>
        /\ sched_pc # "panicked"
        /\ issued = EmptyBag
        /\ moved = EmptyBag
        /\ sched_pc # "done" => ENABLED AggNext
        /\ sched_pc = "done" =>
              /\ result_len = 2^BKBits
              /\ running_sums = [b \in 1 .. 2^BKBits |-> 0]

\* the run on the one-row input has returned, with the user's chunk taken
C14_Witness ==
    /\ SingleUserSingleRow
    /\ sched_pc = "done"
    /\ Len(collected) = 1
    /\ yielded = 1

\* C15: when a multiplication of a per-user circuit has failed and
\* attribute_cap_aggregate has ended, it has ended by returning Err; and the
\* circuit that failed has stopped before its last row.
C15_CircuitFailureReturnsErr ==
    \A j \in DOMAIN circuits :
        circuits[j].err =>
            /\ sched_pc \in {"done", "panicked", "err"} => sched_pc = "err"
            /\ circuits[j].output_len < skip_first(circuits[j].num_user_rows)

\* ------------------------------------------------------------------------
\* Properties of OprfIpaQuery::execute
\* ------------------------------------------------------------------------
AcceptedCaps == {8, 16, 32, 64, 128}

QueryFinished == query_pc \in {"ok", "err", "panicked"}

\* C16: execute calls oprf_ipa with SS of 3, 4, 5, 6, 7 bits for a cap of 8,
\* 16, 32, 64, 128, so that 2^|SS| is the cap and |TV| = 3 <= |SS|; with one
\* of these caps the match itself never panics.
C16_CapSelectsSaturatingSumWidth ==
    /\ oprf_ipa_types # NoTypes =>
           /\ <<per_user_credit_cap, oprf_ipa_types.SS>>
                  \in {<<8, 3>>, <<16, 4>>, <<32, 5>>, <<64, 6>>, <<128, 7>>}
           /\ 2^oprf_ipa_types.SS = per_user_credit_cap
           /\ oprf_ipa_types.TV = 3
           /\ oprf_ipa_types.TV <= oprf_ipa_types.SS
    /\ (per_user_credit_cap \in AcceptedCaps /\ query_pc \in {"called", "ok"}) =>
           oprf_ipa_types # NoTypes
    /\ (per_user_credit_cap \in AcceptedCaps /\ query_pc = "panicked") =>
           ~plaintext_match_keys

C16_Witness ==
    /\ query_pc = "ok"
    /\ per_user_credit_cap = 128
    /\ oprf_ipa_types.SS = 7
    /\ query_input_len > 0

\* C17: with a cap outside 8, 16, 32, 64, 128, a call of execute that has
\* read its input ends with Err(ConfigInvalid) and oprf_ipa is never called.
C17_InvalidCapIsConfigInvalid ==
    (/\ per_user_credit_cap \notin AcceptedCaps
     /\ plaintext_match_keys
     /\ query_error # "InputStream"
     /\ QueryFinished) =>
        /\ query_pc = "err"
        /\ query_error = "ConfigInvalid"
        /\ oprf_ipa_types = NoTypes

\* ------------------------------------------------------------------------
\* Properties of integer_add and integer_sat_add
\* ------------------------------------------------------------------------
\* C18: integer_add of two k-bit values returns a k-bit value, the sum
\* modulo 2^k: the carry out of bit k-1 is dropped.
C18_IntegerAddWraps ==
    add_pc = "integer_add" =>
        /\ add_out.value \in 0 .. (2^add_bits - 1)
        /\ add_out.value = (add_x + add_y) % (2^add_bits)

C18_Witness ==
    /\ add_pc = "integer_add"
    /\ add_bits > 1
    /\ add_x + add_y > 2^add_bits
    /\ add_out.value = add_x + add_y - 2^add_bits

C21_PeerIsARing ==
    \A i \in DOMAIN peer_directions :
        /\ peer_roles[i + 1] # peer_roles[i]
        /\ peer_directions[i] = "Right" =>
               <<peer_roles[i], peer_roles[i + 1]>>
                   \in {<<"H1", "H2">>, <<"H2", "H3">>, <<"H3", "H1">>}
        /\ (i > 1 /\ peer_directions[i] # peer_directions[i - 1]) =>
               peer_roles[i + 1] = peer_roles[i - 1]

C21_Witness ==
    /\ peer_directions = <<"Left", "Right">>
    /\ peer_roles = <<"H1", "H3", "H1">>

IsPermutation(helper_roles) ==
    /\ Len(helper_roles) = 3
    /\ {helper_roles[i] : i \in DOMAIN helper_roles} = HelperIdentities

\* C22: in a RoleAssignment that holds a permutation of the three helper
\* identities, role(h) is the role whose position (0, 1, 2 for H1, H2, H3)
\* holds h and identity(r) is the identity at the position of r, so that
\* role(identity(r)) = r and identity(role(h)) = h; role does not panic.
C22_RoleAndIdentityAreInverse ==
    (role_assignment.kind = "Ok" /\ IsPermutation(role_assignment.helper_roles)) =>
        LET helper_roles == role_assignment.helper_roles
        IN  /\ role_pc # "panicked"
            /\ role_lookup.fn = "role" =>
                   \E i \in 1 .. 3 :
                       /\ <<i, role_lookup.result>> \in {<<1, "H1">>, <<2, "H2">>, <<3, "H3">>}
                       /\ helper_roles[i] = role_lookup.arg
            /\ role_lookup.fn = "identity" =>
                   \E i \in 1 .. 3 :
                       /\ <<i, role_lookup.arg>> \in {<<1, "H1">>, <<2, "H2">>, <<3, "H3">>}
                       /\ helper_roles[i] = role_lookup.result
            /\ \A r \in Roles :
                   assignment_role(helper_roles, assignment_identity(helper_roles, r)) = r
            /\ \A h \in HelperIdentities :
                   assignment_identity(helper_roles, assignment_role(helper_roles, h)) = h

C22_Witness ==
    /\ role_pc = "new"
    /\ role_assignment.helper_roles = <<3, 1, 2>>
    /\ role_lookup = [fn |-> "role", arg |-> 1, result |-> "H2"]

RolesOf(value) == [i \in DOMAIN value |-> value[i].role]
Repeats(roles) == {i \in DOMAIN roles : \E j \in DOMAIN roles : j < i /\ roles[j] = roles[i]}

\* C23: try_from on three (helper, role) pairs never panics; when a role
\* occurs twice it returns Err naming the role of the first pair whose role
\* has occurred before; when the roles are distinct it returns Ok and the
\* assignment holds each pair's helper at the position of its role.
C23_TryFromRejectsRepeatedRole ==
    (role_pc = "try_from") =>
        LET roles == RolesOf(role_value)
            repeats == Repeats(roles)
        IN  /\ role_assignment.kind # "panic"
            /\ repeats # {} =>
                   /\ role_assignment.kind = "Err"
                   /\ \E i \in repeats :
                          /\ \A j \in repeats : i <= j
                          /\ role_assignment.role = roles[i]
            /\ repeats = {} =>
                   /\ role_assignment.kind = "Ok"
                   /\ \A i \in DOMAIN role_value :
                          role_assignment.helper_roles[RoleIndex(roles[i]) + 1]
                              = role_value[i].helper

C23_Witness ==
    /\ role_pc = "try_from"
    /\ RolesOf(role_value) = <<"H1", "H1", "H3">>
    /\ role_assignment.kind = "Err"
    /\ role_assignment.role = "H1"

\* the sum of the three additive parts
SumOfParts(x) == Fp(x["H1"] + x["H2"] + x["H3"])

\* the new share (received, local) of the helper whose role is r
ProductShare(r) ==
    LET h == CHOOSE id \in HelperIdentities : assignment_role(mul_helper_roles, id) = r
    IN  [left |-> mul_helpers[h].received, right |-> mul_helpers[h].local]

MultiplyDone == \A h \in HelperIdentities : mul_helpers[h].pc = "done"

\* C24: under each of the six role assignments no helper sends to or receives
\* from itself, and when the three helpers are done their new shares are
\* replicated (the right part of a role is the left part of its right peer)
\* and reconstruct to a * b, whatever the assignment.
C24_ProductUnderEveryAssignment ==
    /\ \A h \in HelperIdentities : mul_helpers[h].pc # "panicked"
    /\ MultiplyDone =>
           /\ \A r \in Roles :
                  ProductShare(r).right = ProductShare(peer(r, "Right")).left
           /\ Fp(ProductShare("H1").left + ProductShare("H2").left + ProductShare("H3").left)
                  = Fp(SumOfParts(mul_a) * SumOfParts(mul_b))
           /\ Fp(ProductShare("H1").left + ProductShare("H1").right + ProductShare("H2").right)
                  = Fp(SumOfParts(mul_a) * SumOfParts(mul_b))

C24_Witness ==
    /\ MultiplyDone
    /\ mul_helper_roles = <<3, 1, 2>>
    /\ SumOfParts(mul_a) = 3
    /\ SumOfParts(mul_b) = 2
    /\ \E h \in HelperIdentities : mul_helpers[h].local > MaxShare

\* ------------------------------------------------------------------------
\* Properties of HttpTransport
\* ------------------------------------------------------------------------
\* C25: whenever the future of complete_query has been dropped, be it ready
\* with Ok or Err, unwound by a panic or still pending, no stream added
\* before that drop is left in record_streams: the collection holds only
\* streams that arrived after the last drop.
C25_DropClearsRecordStreams ==
    \A s \in record_streams : s.epoch = drops

C25_Witness ==
    /\ drops = 2
    /\ dropped_from = [pc |-> "panicking", held |-> 2]
    /\ complete_pc = "idle"
    /\ record_streams = {}

\* ------------------------------------------------------------------------
\* Properties of TotalRecords
\* ------------------------------------------------------------------------
\* the statement of C26: once the value has been Specified(n), count() is
\* Some(n) after every call of overwrite that returns.
C26_CountFixedOnceSet ==
    (total_set > 0 /\ total_pc = "running") =>
        (total_records.kind = "Specified" /\ count(total_records) = total_set)

\* C26: once the value has been Specified(n), every call of overwrite that
\* returns leaves it Specified(n) or makes it Indeterminate, whose count() is
\* None; it is never Specified with another count and never Unspecified.
C26_CountNeverChangesToAnotherCount ==
    total_set > 0 =>
        \/ total_records.kind = "Specified" /\ total_records.count = total_set
        \/ total_records = Indeterminate

C26_Witness ==
    /\ total_set = 2
    /\ total_records = Indeterminate
    /\ total_pc = "running"
    /\ total_call.old = Specified(2)

\* C27: a call of overwrite returns exactly when the old value is
\* Unspecified, and then the result is the new value, or when the old value
\* is Specified and the new one Indeterminate; every other call panics and
\* leaves the value as it was.  A usize of 0 is converted to Unspecified and
\* n > 0 to Specified(n).
C27_OverwriteTransitions ==
    total_call.calls > 0 =>
        /\ total_call.panicked <=>
               ~(\/ total_call.old.kind = "Unspecified"
                 \/ (total_call.old.kind = "Specified"
                        /\ total_call.value.kind = "Indeterminate"))
        /\ total_call.panicked <=> total_pc = "panicked"
        /\ total_call.panicked => total_records = total_call.old
        /\ ~total_call.panicked => total_records = total_call.value
        /\ total_call.usize = 0 => total_call.value.kind = "Unspecified"
        /\ total_call.usize > 0 =>
               (total_call.value.kind = "Specified"
                    /\ total_call.value.count = total_call.usize)

C27_Witness ==
    /\ total_call.old = Specified(1)
    /\ total_call.usize = 0
    /\ total_call.panicked
    /\ total_call.calls = 2

\* ------------------------------------------------------------------------
\* Properties of the cap of the per-user circuit
\* ------------------------------------------------------------------------
\* C28: the capped trigger value of a row is its attributed trigger value
\* when the sum is not saturated after the row, the difference_to_cap of the
\* row before when the sum overflows on this row and was not saturated, and
\* 0 when the row before was already saturated; a row whose sum is saturated
\* is in one of the last two cases.
C28_CappedValueThreeCases ==
    [][RowTaken =>
          /\ (prev_row_inputs'.is_saturated = 0 =>
                 last_call'.capped_attributed_trigger_value
                     = last_call'.attributed_trigger_value)
          /\ ((last_call'.overflow_bit = 1 /\ prev_row_inputs.is_saturated = 0) =>
                 last_call'.capped_attributed_trigger_value
                     = prev_row_inputs.difference_to_cap)
          /\ (prev_row_inputs.is_saturated = 1 =>
                 last_call'.capped_attributed_trigger_value = 0)
          /\ (prev_row_inputs'.is_saturated = 1 =>
                 \/ (last_call'.overflow_bit = 1 /\ prev_row_inputs.is_saturated = 0)
                 \/ prev_row_inputs.is_saturated = 1)]_vars

\* the row that saturates the sum is capped below its attributed value
C28_Witness ==
    /\ last_call.made
    /\ last_call.overflow_bit_and_prev_row_not_saturated = 1
    /\ last_call.capped_attributed_trigger_value > 0
    /\ last_call.capped_attributed_trigger_value < last_call.attributed_trigger_value
    /\ ss_bits = MaxSSBits

\* C29: on every row, `the row before was saturated` and `this row just
\* became saturated` are not both 1, and the new is_saturated, their sum in
\* GF(2), is 1 exactly when one of them is.
C29_SaturationConditionsDisjoint ==
    [][RowTaken =>
          /\ ~(/\ prev_row_inputs.is_saturated = 1
                /\ last_call'.overflow_bit_and_prev_row_not_saturated = 1)
          /\ (prev_row_inputs'.is_saturated = 1 <=>
                 \/ prev_row_inputs.is_saturated = 1
                 \/ last_call'.overflow_bit_and_prev_row_not_saturated = 1)
          /\ (last_call'.overflow_bit_and_prev_row_not_saturated = 1 <=>
                 (last_call'.overflow_bit = 1 /\ prev_row_inputs.is_saturated = 0))]_vars

\* a saturated user whose sum overflows again: the row is not just saturated
C29_Witness ==
    /\ last_call.made
    /\ last_call.overflow_bit = 1
    /\ last_call.overflow_bit_and_prev_row_not_saturated = 0
    /\ last_call.attributed_trigger_value > 0
    /\ last_call.capped_attributed_trigger_value = 0
    /\ prev_row_inputs.is_saturated = 1

\* C30: after every row difference_to_cap is (0 - saturating_sum) mod 2^|TV|;
\* for a user that is not saturated it is the remaining capacity
\* 2^|SS| - saturating_sum whenever that is below 2^|TV|; a row saturates
\* only from such a state, is never the first row computed, and outputs that
\* capacity, which is not 0.
C30_DifferenceToCapIsRemainingCapacity ==
    [][(RowTaken /\ TVBits <= ss_bits) =>
          /\ prev_row_inputs'.difference_to_cap
                 = (2^TVBits - (prev_row_inputs'.saturating_sum % (2^TVBits))) % (2^TVBits)
          /\ ((/\ prev_row_inputs'.is_saturated = 0
                /\ 2^ss_bits - prev_row_inputs'.saturating_sum < 2^TVBits) =>
                 prev_row_inputs'.difference_to_cap
                     = 2^ss_bits - prev_row_inputs'.saturating_sum)
          /\ (last_call'.overflow_bit_and_prev_row_not_saturated = 1 =>
                 /\ 2^ss_bits - prev_row_inputs.saturating_sum < 2^TVBits
                 /\ Len(output) > 0
                 /\ last_call'.capped_attributed_trigger_value
                        = 2^ss_bits - prev_row_inputs.saturating_sum
                 /\ last_call'.capped_attributed_trigger_value > 0)]_vars

\* a user one short of the cap
C30_Witness ==
    /\ last_call.made
    /\ prev_row_inputs.is_saturated = 0
    /\ prev_row_inputs.saturating_sum = 2^ss_bits - 1
    /\ prev_row_inputs.difference_to_cap = 1
    /\ ss_bits = MaxSSBits


\* ------------------------------------------------------------------------
\* Properties of the scheduling of the per-user circuits
\* ------------------------------------------------------------------------
\* the record ids that the chunk at position j of the sorted chunks is given:
\* at depth d - 1 the number of chunks before it that have a row of that depth
IdsOfPosition(j) ==
    [d \in 1 .. Len(collected[j]) |->
        Cardinality({k \in 1 .. j - 1 : Len(collected[k]) >= d})]

\* C31: the counters of record_id_for_row_depth change only when the
\* scheduler takes the next chunk, by one at each depth of that chunk, and the
\* circuit created then has run no row; a row of a circuit leaves the counters
\* alone and takes its record id from the circuit's own copy; and the copy
\* that the circuit at position j holds is fixed by the sorted chunks alone,
\* whatever the interleaving of the pending circuits.
C31_CountersMovedBySchedulerOnly ==
    [][/\ (sched_pc = "running" /\ record_id_for_row_depth' # record_id_for_row_depth) =>
             /\ dispatched' = dispatched + 1
             /\ Len(circuits') = dispatched'
             /\ circuits'[dispatched'].output_len = 0
             /\ \A k \in 1 .. dispatched : circuits'[k] = circuits[k]
             /\ issued' = issued
             /\ \A d \in DOMAIN record_id_for_row_depth :
                   record_id_for_row_depth'[d] = record_id_for_row_depth[d] +
                       (IF d <= Len(collected[dispatched']) THEN 1 ELSE 0)
       /\ (sched_pc = "running" /\ dispatched' = dispatched + 1) =>
             record_id_for_row_depth' # record_id_for_row_depth
       /\ issued' # issued =>
             /\ record_id_for_row_depth' = record_id_for_row_depth
             /\ \E j \in yielded + 1 .. dispatched :
                   LET i == circuits[j].output_len
                   IN  /\ \A k \in DOMAIN circuits : k # j => circuits'[k] = circuits[k]
                       /\ issued' = issued (+)
                             SetToBag({[row |-> i + 1,
                                        record_id |-> IdsOfPosition(j)[i + 2]]})
       /\ \A j \in DOMAIN circuits' :
             circuits'[j].record_ids = IdsOfPosition(j)'
      ]_vars

\* two circuits are pending, the older one has run no row and the younger
\* one has; the two users have rows at a common depth
C31_Witness ==
    /\ sched_pc = "running"
    /\ dispatched - yielded = 2
    /\ circuits[yielded + 1].output_len = 0
    /\ circuits[yielded + 2].output_len >= 1
    /\ circuits[yielded + 2].record_ids[2] >= 1


\* the chunks are sorted by length, longest first, chunks of one length in
\* the order of the input; every circuit created holds, at every depth of its
\* user, the record id that is its position in that order; and at every depth
\* d from first_depth on the chunks with a row of depth d are the first
\* histogram[d] chunks
SortedChunksGiveRecordIds(first_depth) ==
    (HistogramComputed /\ sched_pc \in {"running", "done"}) =>
        /\ \A a, b \in DOMAIN collected :
              a < b => /\ Len(collected[a]) >= Len(collected[b])
                       /\ Len(collected[a]) = Len(collected[b]) =>
                             collected[a][1] < collected[b][1]
        /\ \A j \in DOMAIN circuits :
              /\ Len(circuits[j].record_ids) = Len(collected[j])
              /\ \A d \in DOMAIN circuits[j].record_ids :
                    circuits[j].record_ids[d] = j - 1
        /\ \A d \in first_depth .. Len(histogram) - 1 :
              {j \in DOMAIN collected : Len(collected[j]) > d} = 1 .. histogram[d + 1]

C33_RowsStrictlySequential ==
    [][\A id \in HelperIdentities :
          \A k \in helpers_issued'[id] \ helpers_issued[id] :
              \E j \in DOMAIN helpers_circuits[id] :
                  LET c == helpers_circuits[id][j]
                  IN  /\ ~c.awaiting
                      /\ helpers_circuits'[id][j].awaiting
                      /\ k.row = c.output_len + 1
                      /\ k.record_id = c.record_ids[k.row + 1]
                      /\ \A r \in 1 .. k.row - 1 :
                            \A s \in DOMAIN RowAwaits :
                                [row |-> r, stage |-> s, record_id |-> c.record_ids[r + 1]]
                                    \in helpers_completed[id]
                      /\ \A s \in 1 .. k.stage - 1 :
                            [row |-> k.row, stage |-> s, record_id |-> k.record_id]
                                \in helpers_completed[id]
      ]_vars

\* a helper with two circuits pending has issued the first multiplications
\* of the second row of one of them, which have not returned
C33_Witness ==
    \E id \in HelperIdentities :
        /\ helpers_dispatched[id] - helpers_yielded[id] = 2
        /\ \E k \in helpers_issued[id] \ helpers_completed[id] :
              k.row = 2 /\ k.stage = 1

\* every helper has yielded the output of every circuit
JoinFinished ==
    \A id \in HelperIdentities :
        /\ helpers_yielded[id] = Len(helpers_collected)
        /\ \A j \in DOMAIN helpers_circuits[id] :
              helpers_circuits[id][j].output_len =
                  skip_first(helpers_circuits[id][j].num_user_rows)

\* C36: with the three helpers on one cleartext grouping column, each with
\* its own concurrency bound >= 1, and a multiplication returning once the
\* three helpers have issued it, every circuit of every helper eventually
\* completes, and in no state before that are all helpers unable to step.
C36_EveryCircuitCompletes ==
    /\ <>JoinFinished
    /\ [](~JoinFinished => ENABLED JoinNext)

\* the run is over on helpers with different bounds, for two users
C36_Witness ==
    /\ JoinFinished
    /\ Len(helpers_collected) = 2
    /\ Len(helpers_collected[2]) >= 2
    /\ helpers_active_work[1] = 1
    /\ helpers_active_work[2] = 2


\* ------------------------------------------------------------------------
\* Properties of the stream of attribution outputs
\* ------------------------------------------------------------------------
\* the number of output rows of the chunks from position j on
RECURSIVE OutputRowsFrom(_)
OutputRowsFrom(j) ==
    IF j > Len(collected) THEN 0
    ELSE (Len(collected[j]) - 1) + OutputRowsFrom(j + 1)

\* C34: with the histogram computed from the input, num_outputs =
\* input_rows.len() - histogram[0] is the sum of histogram[d] over d >= 1 and
\* the number of rows after the first of all users; the conversion and
\* bucket steps never use a record id of num_outputs or more, and at the end
\* of the run the stream has num_outputs rows and the record ids used are
\* 0 .. num_outputs - 1, each once.
C34_NumOutputsIsRowsEmitted ==
    (HistogramComputed /\ sched_pc \in {"running", "done"}) =>
        /\ num_outputs = Len(input_prf) - histogram[1]
        /\ num_outputs = SumOf(Tail(histogram))
        /\ num_outputs = OutputRowsFrom(1)
        /\ Len(flattenned_stream) <= num_outputs
        /\ \A m \in BagToSet(moved) :
              m.record_id \in 0 .. num_outputs - 1 /\ CopiesIn(m, moved) = 1
        /\ sched_pc = "done" =>
              /\ Len(flattenned_stream) = num_outputs
              /\ {m.record_id : m \in BagToSet(moved)} = 0 .. num_outputs - 1
              /\ BagCardinality(moved) = num_outputs

\* a finished run with a one-row user among users of several rows
C34_Witness ==
    /\ HistogramComputed
    /\ sched_pc = "done"
    /\ histogram[1] > Len(collected)
    /\ Len(collected) >= 2
    /\ num_outputs >= 3
    /\ BagCardinality(moved) = num_outputs


\* the rows that the circuits at the positions 1 .. j of the sorted chunks
\* return, in the order of the positions and of the rows
RECURSIVE OutputsInSubmissionOrder(_)
OutputsInSubmissionOrder(j) ==
    IF j = 0 THEN <<>>
    ELSE OutputsInSubmissionOrder(j - 1) \o
             [r \in 1 .. Len(collected[j]) - 1 |-> [user |-> j, row |-> r]]

\* C35: the stream of attribution outputs holds the outputs of the circuits
\* yielded so far in the order of submission, whichever circuit returned
\* first: all outputs of the user at sorted position j before those of
\* position j + 1, a user's outputs in row order; so the record id that the
\* bucket step gives an output row is fixed by the sorted chunks: the number
\* of output rows of the users before, plus the rows before in the user.
C35_OutputsInSubmissionOrder ==
    sched_pc \in {"running", "done"} =>
        /\ flattenned_stream = OutputsInSubmissionOrder(yielded)
        /\ \A a, b \in DOMAIN flattenned_stream :
              a < b => \/ flattenned_stream[a].user < flattenned_stream[b].user
                       \/ /\ flattenned_stream[a].user = flattenned_stream[b].user
                          /\ flattenned_stream[a].row < flattenned_stream[b].row
        /\ \A m \in BagToSet(moved) :
              m.record_id = Len(OutputsInSubmissionOrder(m.user - 1)) + m.row - 1

\* outputs of an earlier user are in the stream, and of the two circuits
\* pending the younger has returned while the older has rows left
C35_Witness ==
    /\ sched_pc = "running"
    /\ Len(flattenned_stream) >= 1
    /\ BagCardinality(moved) >= 1
    /\ dispatched - yielded = 2
    /\ circuits[yielded + 1].output_len < skip_first(circuits[yielded + 1].num_user_rows)
    /\ circuits[yielded + 2].output_len = skip_first(circuits[yielded + 2].num_user_rows)
    /\ circuits[yielded + 2].output_len >= 1


\* ------------------------------------------------------------------------
\* Properties of the attribution window of the per-user circuit
\* ------------------------------------------------------------------------
\* the steps that exist for the attribution window
WindowLabels == {"SourceEventTimestamp", "CheckAttributionWindow", "AttributedEventCheckFlag"}

UnderWindowLabel(step) == \E n \in DOMAIN step.path : step.path[n] \in WindowLabels

\* C37: a row issues one multiplication at each of its steps; when
\* attribution_window_seconds is None none of them is under
\* SourceEventTimestamp, CheckAttributionWindow or AttributedEventCheckFlag
\* and the row leaves source_event_timestamp of the state as it was; when it
\* is Some, the row multiplies once under SourceEventTimestamp, once under
\* AttributedEventCheckFlag and once per bit under ComputeTimeDelta and
\* CompareTimeDeltaToAttributionWindow of CheckAttributionWindow.
C37_NoWindowNoWindowSteps ==
    [][RowTaken =>
          LET steps == RowSteps(attribution_window_seconds, ss_bits)
              window_steps == {s \in steps : UnderWindowLabel(s)}
          IN  /\ mults' = mults + Cardinality(steps)
              /\ attribution_window_seconds = 0 =>
                    /\ window_steps = {}
                    /\ prev_row_inputs'.source_event_timestamp =
                           prev_row_inputs.source_event_timestamp
              /\ attribution_window_seconds # 0 =>
                    /\ window_steps =
                           {[path |-> <<"SourceEventTimestamp">>, bit |-> NoBit],
                            [path |-> <<"AttributedTriggerValue", "AttributedEventCheckFlag">>,
                             bit |-> NoBit]}
                           \cup {[path |-> <<"AttributedTriggerValue", "CheckAttributionWindow",
                                             label>>, bit |-> i] :
                                    label \in {"ComputeTimeDelta",
                                               "CompareTimeDeltaToAttributionWindow"},
                                    i \in 0 .. TSBits - 1}
                    /\ Cardinality(steps \ window_steps) = Cardinality(RowSteps(0, ss_bits))
      ]_vars

\* without a window, a source row whose timestamp is not the one held in the
\* state was read
C37_Witness ==
    /\ attribution_window_seconds = 0
    /\ last_call.made
    /\ last_call.is_trigger_bit = 0
    /\ ref.last_ts # prev_row_inputs.source_event_timestamp
    /\ Len(output) >= 2


\* ------------------------------------------------------------------------
\* Properties of inputs that are not grouped
\* ------------------------------------------------------------------------
\* C38: on an input in which the rows of one grouping key are not contiguous
\* (a key comes back after the rows of another key), with the histogram
\* computed from that input, attribute_cap_aggregate does not return an
\* aggregate: the run never ends with Ok(running_sums).
C38_NonContiguousInputIsAnError ==
    (HistogramComputed /\ ~Contiguous(input_prf)) => sched_pc # "done"


\* ------------------------------------------------------------------------
\* Properties of the ripple-carry adder
\* ------------------------------------------------------------------------
\* 1 when at least two of the three bits are 1
Majority(a, b, c) == IF a + b + c >= 2 THEN 1 ELSE 0

Xor(a, b) == (a + b) % 2

\* the multiplications issued so far, in order
IssuedInOrder == SelectSeq(adder_trace, LAMBDA e : e.event = "issued")

\* C39: the multiplications of the adder are issued one per bit in
\* increasing bit order, bit i at the step BitOpStep(i) and with the record
\* id of the caller, each one only after the one before has returned; the
\* adder on a k-bit x that has returned has issued exactly k of them; and at
\* each bit sum_i = x_i xor y_i xor c and the new carry is
\* c xor ((x_i xor c) * (y_i xor c)), the majority of x_i, y_i and c.
C39_OneMultiplicationPerBitInOrder ==
    [][/\ \A n \in DOMAIN adder_trace' :
             /\ adder_trace'[n].step = (n - 1) \div 2
             /\ adder_trace'[n].event = (IF n % 2 = 1 THEN "issued" ELSE "returned")
             /\ adder_trace'[n].record_id = adder_record_id
       /\ adder_pc' = "returned" =>
             /\ Len(IssuedInOrder') = adder_bits
             /\ \A i \in 0 .. adder_bits - 1 : IssuedInOrder'[i + 1].step = i
       /\ adder_i' = adder_i + 1 =>
             LET x_i == Bit(adder_x, adder_i)
                 y_i == Bit(adder_y, adder_i)
                 c   == adder_carry
             IN  /\ Bit(adder_result', adder_i) = Xor(Xor(x_i, y_i), c)
                 /\ adder_result' % (2^adder_i) = adder_result
                 /\ adder_carry' = Xor(c, Xor(x_i, c) * Xor(y_i, c))
                 /\ adder_carry' = Majority(x_i, y_i, c)
      ]_vars

\* the adder has returned on a 3-bit x, with a carry that came in, went out
\* of the first bit and not out of the last
C39_Witness ==
    /\ adder_pc = "returned"
    /\ adder_bits = 3
    /\ Len(adder_trace) = 6
    /\ adder_record_id = 1
    /\ Bit(adder_x, 0) = 0
    /\ Bit(adder_y, 0) = 1
    /\ Bit(adder_result, 0) = 0
    /\ adder_carry = 0


\* ------------------------------------------------------------------------
\* C40: RoleResolvingTransport never hands the inner transport a message to
\* itself. Every call that reached the inner transport names a peer other
\* than the helper's own identity; a send or receive on a channel whose role
\* resolves to the helper's own identity panics with "can't send message to
\* itself" / "can't receive message from itself" and leaves the calls of the
\* inner transport as they were, and no other send or receive panics; when
\* the role assignment is a permutation and the channel's role is not role(),
\* the call does not panic and the inner transport is called with the
\* identity of the channel's role, this gateway's query id and the channel's
\* step, under RouteId::Records for send.
\* ------------------------------------------------------------------------
InnerCallOf(call) ==
    [fn |-> call.fn,
     peer |-> assignment_identity(gateway_roles, call.role),
     route |-> IF call.fn = "send"
               THEN <<"Records", gateway_query_id, call.step>>
               ELSE <<gateway_query_id, call.step>>]

ItselfPanicOf(call) == IF call.fn = "send" THEN SendToItself ELSE ReceiveFromItself

C40_NeverToItself ==
    [][/\ \A c \in gateway_inner' : c.peer # gateway_identity'
       /\ gateway_call'.fn \in {"send", "receive"} =>
            /\ assignment_identity(gateway_roles, gateway_call'.role) = gateway_identity =>
                  /\ gateway_call'.outcome = ItselfPanicOf(gateway_call')
                  /\ gateway_pc' = "panicked"
                  /\ gateway_inner' = gateway_inner
            /\ assignment_identity(gateway_roles, gateway_call'.role) # gateway_identity =>
                  /\ gateway_call'.outcome = ""
                  /\ gateway_inner' = gateway_inner \cup {InnerCallOf(gateway_call')}
            /\ (/\ IsPermutation(gateway_roles)
                /\ gateway_call'.role # assignment_role(gateway_roles, gateway_identity)) =>
                  /\ gateway_call'.outcome = ""
                  /\ gateway_pc' = "ready"
                  /\ InnerCallOf(gateway_call') \in gateway_inner']_vars

\* a permutation whose helper has sent and received on channels of the other
\* roles, and then panicked sending on a channel of its own role
C40_Witness ==
    /\ IsPermutation(gateway_roles)
    /\ \E c \in gateway_inner : c.fn = "send" /\ c.route[1] = "Records"
    /\ \E c \in gateway_inner : c.fn = "receive" /\ c.route[1] = gateway_query_id
    /\ gateway_call.fn = "send"
    /\ gateway_call.role = assignment_role(gateway_roles, gateway_identity)
    /\ gateway_call.outcome = SendToItself
    /\ gateway_pc = "panicked"

====
